---- MODULE Spec2Model ----
(***************************************************************************)
(* Model of the field-extraction engine and batch pipeline of              *)
(* upi_extractor/core/extractor.py (class PaymentExtractor).               *)
(*                                                                         *)
(* Text is a TLA+ string; the character at position i is SubSeq(s, i, i).  *)
(* The rupee sign of the source is written Rupee (an ASCII stand-in that,  *)
(* like the rupee sign, is neither a word character, a digit nor a space). *)
(***************************************************************************)
EXTENDS Integers, Sequences, FiniteSets, TLC

\* ---------------------------------------------------------------------
\* Characters and the character classes of Python's re module
\* ---------------------------------------------------------------------

Rupee == "$"

Digit == {"0", "1", "2", "3", "4", "5", "6", "7", "8", "9"}

LowerAZ == {"a", "b", "c", "d", "e", "f", "g", "h", "i", "j", "k", "l", "m",
            "n", "o", "p", "q", "r", "s", "t", "u", "v", "w", "x", "y", "z"}

UpperAZ == {"A", "B", "C", "D", "E", "F", "G", "H", "I", "J", "K", "L", "M",
            "N", "O", "P", "Q", "R", "S", "T", "U", "V", "W", "X", "Y", "Z"}

\* \w
Word == LowerAZ \cup UpperAZ \cup Digit \cup {"_"}

\* \s, and the characters str.strip() removes
Ws == {" ", "\t", "\n", "\r", "\f"}

ToLower == [c \in UpperAZ |->
    CASE c = "A" -> "a" [] c = "B" -> "b" [] c = "C" -> "c" [] c = "D" -> "d"
      [] c = "E" -> "e" [] c = "F" -> "f" [] c = "G" -> "g" [] c = "H" -> "h"
      [] c = "I" -> "i" [] c = "J" -> "j" [] c = "K" -> "k" [] c = "L" -> "l"
      [] c = "M" -> "m" [] c = "N" -> "n" [] c = "O" -> "o" [] c = "P" -> "p"
      [] c = "Q" -> "q" [] c = "R" -> "r" [] c = "S" -> "s" [] c = "T" -> "t"
      [] c = "U" -> "u" [] c = "V" -> "v" [] c = "W" -> "w" [] c = "X" -> "x"
      [] c = "Y" -> "y" [] c = "Z" -> "z"]

ToUpper == [c \in LowerAZ |-> CHOOSE u \in UpperAZ : ToLower[u] = c]

\* str.lower() / str.upper() on one character
LowerCh(c) == IF c \in UpperAZ THEN ToLower[c] ELSE c
UpperCh(c) == IF c \in LowerAZ THEN ToUpper[c] ELSE c

Ch(s, i) == SubSeq(s, i, i)

Min(set) == CHOOSE m \in set : \A y \in set : m <= y
Max(set) == CHOOSE m \in set : \A y \in set : m >= y

\* Apply a character map to every character (halving keeps the recursion
\* shallow)
RECURSIVE MapStr(_, _)
MapStr(s, up) ==
    IF Len(s) = 0 THEN ""
    ELSE IF Len(s) = 1 THEN (IF up THEN UpperCh(s) ELSE LowerCh(s))
    ELSE LET h == Len(s) \div 2
         IN  MapStr(SubSeq(s, 1, h), up) \o MapStr(SubSeq(s, h + 1, Len(s)), up)

\* str.lower(), str.upper()
Lower(s) == MapStr(s, FALSE)
Upper(s) == MapStr(s, TRUE)

\* str.strip()
Strip(s) ==
    LET keep == {i \in 1..Len(s) : Ch(s, i) \notin Ws}
    IN  IF keep = {} THEN "" ELSE SubSeq(s, Min(keep), Max(keep))

\* str.split(sep) for a one-character separator
RECURSIVE Split(_, _)
Split(s, sep) ==
    LET at == {i \in 1..Len(s) : Ch(s, i) = sep}
    IN  IF at = {} THEN <<s>>
        ELSE <<SubSeq(s, 1, Min(at) - 1)>>
             \o Split(SubSeq(s, Min(at) + 1, Len(s)), sep)

\* x in s (substring test)
Contains(s, x) ==
    \E i \in 1..(Len(s) + 1) :
        i + Len(x) - 1 <= Len(s) /\ SubSeq(s, i, i + Len(x) - 1) = x

\* s.startswith(x)
StartsWith(s, x) == Len(x) <= Len(s) /\ SubSeq(s, 1, Len(x)) = x

AllIn(s, set) == \A i \in 1..Len(s) : Ch(s, i) \in set

\* str.isdigit()
IsDigit(s) == Len(s) > 0 /\ AllIn(s, Digit)

\* ---------------------------------------------------------------------
\* Regular expressions: syntax trees and a backtracking matcher with
\* Python's priorities (leftmost match, ordered alternatives, greedy
\* repetition).  Only capture group 1 is ever read by the source.
\* ---------------------------------------------------------------------

Inf == 0 - 1

S(str)         == [t |-> "str", s |-> str]
C(set)         == [t |-> "set", cs |-> set]
Dot            == [t |-> "dot"]
Cat(rs)        == [t |-> "seq", rs |-> rs]
Alt(rs)        == [t |-> "alt", rs |-> rs]
Rep(r, lo, hi) == [t |-> "rep", r |-> r, lo |-> lo, hi |-> hi]
Opt(r)         == Rep(r, 0, 1)
Star(r)        == Rep(r, 0, Inf)
Plus(r)        == Rep(r, 1, Inf)
Grp(r)         == [t |-> "grp", r |-> r]
Bol            == [t |-> "bol"]
Eol            == [t |-> "eol"]
Wb             == [t |-> "wb"]
La(r)          == [t |-> "la", r |-> r]

NoMatch == [ok |-> FALSE, b |-> 0, e |-> 0, g |-> <<0, 0>>]

InSet(c, cs, ic) ==
    c \in cs \/ (ic /\ (LowerCh(c) \in cs \/ UpperCh(c) \in cs))

\* The literal x stands at position i of s
EqStr(s, i, x, ic) ==
    /\ i + Len(x) - 1 <= Len(s)
    /\ \A j \in 1..Len(x) :
          IF ic THEN LowerCh(Ch(s, i + j - 1)) = LowerCh(Ch(x, j))
          ELSE Ch(s, i + j - 1) = Ch(x, j)

IsWordAt(s, i) == i >= 1 /\ i <= Len(s) /\ Ch(s, i) \in Word

\* The one-character node n ("set" or "dot") matches the character at i
OneChar(n, s, i, ic) ==
    /\ i <= Len(s)
    /\ IF n.t = "set" THEN InSet(Ch(s, i), n.cs, ic) ELSE Ch(s, i) # "\n"

\* How many characters from position i on the one-character node n matches
RunLen(n, s, i, ic) ==
    LET stops == {j \in i..Len(s) : ~OneChar(n, s, j, ic)}
    IN  IF stops = {} THEN Len(s) - i + 1 ELSE Min(stops) - i

\* M(k, s, i, g, ic): match the sequence k of nodes at position i of s;
\* g is the span of group 1 so far, ic is re.IGNORECASE.  The result is the
\* first match in backtracking order: alternatives left to right, a
\* repetition taking as many iterations as the rest of the pattern allows.
RECURSIVE M(_, _, _, _, _)
M(k, s, i, g, ic) ==
    IF Len(k) = 0 THEN [ok |-> TRUE, b |-> 0, e |-> i, g |-> g]
    ELSE
    LET n    == Head(k)
        rest == Tail(k)
    IN  CASE n.t = "str" ->
               IF EqStr(s, i, n.s, ic) THEN M(rest, s, i + Len(n.s), g, ic)
               ELSE NoMatch
          [] n.t \in {"set", "dot"} ->
               IF OneChar(n, s, i, ic) THEN M(rest, s, i + 1, g, ic) ELSE NoMatch
          [] n.t = "seq" -> M(n.rs \o rest, s, i, g, ic)
          [] n.t = "alt" ->
               LET good == {j \in 1..Len(n.rs) : M(<<n.rs[j]>> \o rest, s, i, g, ic).ok}
               IN  IF good = {} THEN NoMatch
                   ELSE M(<<n.rs[Min(good)]>> \o rest, s, i, g, ic)
          [] n.t = "rep" /\ n.r.t \in {"set", "dot"} ->
               LET run  == RunLen(n.r, s, i, ic)
                   top  == IF n.hi >= 0 /\ n.hi < run THEN n.hi ELSE run
                   good == {c \in n.lo..top : M(rest, s, i + c, g, ic).ok}
               IN  IF good = {} THEN NoMatch
                   ELSE M(rest, s, i + Max(good), g, ic)
          [] n.t = "rep" /\ n.r.t \notin {"set", "dot"} ->
               IF n.hi = 0 THEN M(rest, s, i, g, ic)
               ELSE LET again == Rep(n.r,
                                     IF n.lo > 0 THEN n.lo - 1 ELSE 0,
                                     IF n.hi > 0 THEN n.hi - 1 ELSE n.hi)
                        more  == M(<<n.r, again>> \o rest, s, i, g, ic)
                    IN  IF more.ok THEN more
                        ELSE IF n.lo = 0 THEN M(rest, s, i, g, ic)
                        ELSE NoMatch
          [] n.t = "grp" ->
               M(<<n.r, [t |-> "gend", from |-> i]>> \o rest, s, i, g, ic)
          [] n.t = "gend" -> M(rest, s, i, <<n.from, i>>, ic)
          [] n.t = "bol" ->
               IF i = 1 \/ Ch(s, i - 1) = "\n" THEN M(rest, s, i, g, ic)
               ELSE NoMatch
          [] n.t = "eol" ->
               IF i = Len(s) + 1 \/ Ch(s, i) = "\n" THEN M(rest, s, i, g, ic)
               ELSE NoMatch
          [] n.t = "wb" ->
               IF IsWordAt(s, i - 1) # IsWordAt(s, i) THEN M(rest, s, i, g, ic)
               ELSE NoMatch
          [] n.t = "la" ->
               IF M(<<n.r>>, s, i, g, ic).ok THEN M(rest, s, i, g, ic)
               ELSE NoMatch

\* A match of r starting at position i of s (re.match for i = 1)
MatchAt(r, s, i, ic) == [M(<<r>>, s, i, <<0, 0>>, ic) EXCEPT !.b = i]

\* re.search(r, s) from position i on: the leftmost match
SearchFrom(r, s, i, ic) ==
    LET starts == {j \in i..(Len(s) + 1) : M(<<r>>, s, j, <<0, 0>>, ic).ok}
    IN  IF starts = {} THEN NoMatch ELSE MatchAt(r, s, Min(starts), ic)

Search(r, s, ic) == SearchFrom(r, s, 1, ic)

\* match.group(1), match.group(0)
Group1(s, m) == SubSeq(s, m.g[1], m.g[2] - 1)
Group0(s, m) == SubSeq(s, m.b, m.e - 1)

\* re.findall(r, s) for a pattern with one group: the group of each of the
\* successive non-overlapping matches
RECURSIVE FindAllFrom(_, _, _, _)
FindAllFrom(r, s, i, ic) ==
    LET x == SearchFrom(r, s, i, ic)
    IN  IF ~x.ok THEN <<>>
        ELSE <<Group1(s, x)>>
             \o FindAllFrom(r, s, IF x.e > x.b THEN x.e ELSE x.e + 1, ic)

FindAll(r, s, ic) == FindAllFrom(r, s, 1, ic)

\* ---------------------------------------------------------------------
\* Pattern catalog.  Each tree is the one Python's regex parser builds for
\* the pattern of the source (a common prefix of alternatives is factored
\* out by that parser, which keeps the order of the alternatives).
\* ---------------------------------------------------------------------

\* self.patterns: UPI screenshot patterns
pat_amount ==
    << Cat(<<C({Rupee, "R", "s"}), Opt(S(".")), Star(C(Ws)),
       Grp(Cat(<<Plus(C(Digit \cup {","})), Opt(S(".")), Rep(C(Digit), 0,
       2)>>))>>),
       Cat(<<S("Amount"), Star(C(Ws)), Opt(C({":", "-"})), Star(C(Ws)),
       Opt(C({Rupee, "R", "s"})), Opt(S(".")), Star(C(Ws)),
       Grp(Cat(<<Plus(C(Digit \cup {","})), Opt(S(".")), Rep(C(Digit), 0,
       2)>>))>>),
       Cat(<<S("Paid"), Star(C(Ws)), Opt(C({Rupee, "R", "s"})), Opt(S(".")),
       Star(C(Ws)), Grp(Cat(<<Plus(C(Digit \cup {","})), Opt(S(".")),
       Rep(C(Digit), 0, 2)>>))>>),
       Cat(<<S("Total"), Star(C(Ws)), S("Payable"), Star(C(Ws)), Opt(C({":",
       "-"})), Star(C(Ws)), Opt(C({Rupee, "R", "s"})), Opt(S(".")),
       Star(C(Ws)), Grp(Cat(<<Plus(C(Digit \cup {","})), Opt(S(".")),
       Rep(C(Digit), 0, 2)>>))>>),
       Cat(<<Bol, Star(C(Ws)), C({Rupee, "R", "s"}), Opt(S(".")),
       Star(C(Ws)), Grp(Cat(<<Plus(C(Digit \cup {","})), Opt(S(".")),
       Rep(C(Digit), 0, 2)>>)), Star(C(Ws)), Eol>>) >>

pat_upi_id ==
    << Grp(Cat(<<Plus(C(LowerAZ \cup UpperAZ \cup Digit \cup {".", "-",
       "_"})), S("@"), Plus(C(LowerAZ \cup UpperAZ))>>)),
       Cat(<<S("UPI"), Star(C(Ws)), S("ID"), Star(C(Ws)), Opt(C({":",
       "-"})), Star(C(Ws)),
       Grp(Cat(<<Plus(C(LowerAZ \cup UpperAZ \cup Digit \cup {".", "-",
       "_"})), S("@"), Plus(C(LowerAZ \cup UpperAZ))>>))>>),
       Cat(<<S("VPA"), Star(C(Ws)), Opt(C({":", "-"})), Star(C(Ws)),
       Grp(Cat(<<Plus(C(LowerAZ \cup UpperAZ \cup Digit \cup {".", "-",
       "_"})), S("@"), Plus(C(LowerAZ \cup UpperAZ))>>))>>) >>

pat_txn_id ==
    << Cat(<<S("Txn"), Star(C(Ws)), S("ID"), Star(C(Ws)), Opt(C({":",
       "-"})), Star(C(Ws)), Grp(Plus(C(Word)))>>),
       Cat(<<S("Transaction"), Star(C(Ws)), S("ID"), Star(C(Ws)),
       Opt(C({":", "-"})), Star(C(Ws)), Grp(Plus(C(Word)))>>),
       Cat(<<S("UPI"), Star(C(Ws)), S("Ref"), Star(C(Ws)), S("No"),
       Star(C(Ws)), Opt(C({":", "-"})), Star(C(Ws)), Grp(Plus(C(Digit)))>>),
       Cat(<<S("Ref"), Star(C(Ws)), S("No"), Star(C(Ws)), Opt(C({":",
       "-"})), Star(C(Ws)), Grp(Plus(C(Digit)))>>),
       Cat(<<S("UTR"), Star(C(Ws)), Opt(C({":", "-"})), Star(C(Ws)),
       Grp(Plus(C(Digit)))>>),
       Cat(<<S("Google"), Star(C(Ws)), S("Transaction"), Star(C(Ws)),
       S("ID"), Star(C(Ws)), Opt(C({":", "-"})), Star(C(Ws)),
       Grp(Plus(C(Word \cup {"-"})))>>),
       Cat(<<S("Debited"), Star(C(Ws)), S("from"), Star(C(Ws)), Opt(C({":",
       "-"})), Star(C(Ws)), Grp(Plus(C(Word)))>>) >>

pat_date ==
    << Grp(Cat(<<Rep(C(Digit), 1, 2), Plus(C(Ws)),
       Rep(C(UpperAZ \cup LowerAZ), 3, Inf), Plus(C(Ws)), Rep(C(Digit), 4,
       4)>>)),
       Grp(Cat(<<Rep(C(Digit), 1, 2), C({"/", "-"}), Rep(C(Digit), 1, 2),
       C({"/", "-"}), Rep(C(Digit), 2, 4)>>)),
       Grp(Cat(<<Rep(C(Digit), 4, 4), S("-"), Rep(C(Digit), 2, 2), S("-"),
       Rep(C(Digit), 2, 2)>>)) >>

pat_time ==
    << Grp(Cat(<<Rep(C(Digit), 1, 2), S(":"), Rep(C(Digit), 2, 2),
       Star(C(Ws)), C({"A", "P", "a", "p"}), C({"M", "m"})>>)),
       Grp(Cat(<<Rep(C(Digit), 1, 2), S(":"), Rep(C(Digit), 2, 2)>>)) >>

pat_status ==
    << Grp(Alt(<<S("SUCCESS"), S("FAILED"), S("PENDING"), S("PROCESSING"),
       S("COMPLETED")>>)),
       Cat(<<S("Payment"), Star(C(Ws)), Grp(Alt(<<S("Successful"),
       S("Failed"), S("Pending"), S("Processing"), S("Completed")>>))>>),
       Cat(<<S("Transaction"), Star(C(Ws)), Grp(Alt(<<S("Successful"),
       S("Failed"), S("Pending")>>))>>) >>

patterns ==
    [amount |-> pat_amount,
     upi_id |-> pat_upi_id,
     txn_id |-> pat_txn_id,
     date |-> pat_date,
     time |-> pat_time,
     status |-> pat_status]


\* self.passbook_patterns: same-line "label: value" patterns
pb_account_holder ==
    << Cat(<<S("A"), Alt(<<S("ccount"), Cat(<<Opt(S("/")), S("c")>>)>>),
       Star(C(Ws)), S("Holder"), Star(C(Ws)), S("Name"), Star(C(Ws)),
       Opt(C({":", "-"})), Star(C(Ws)), Grp(Plus(Dot))>>),
       Cat(<<S("A"), Alt(<<S("ccount"), Cat(<<Opt(S("/")), S("c")>>)>>),
       Star(C(Ws)), S("Holder"), Star(C(Ws)), C({":", "-"}), Star(C(Ws)),
       Grp(Plus(Dot))>>),
       Cat(<<S("Name"), Star(C(Ws)), S("of"), Star(C(Ws)),
       Opt(Cat(<<S("Account"), Star(C(Ws))>>)), S("Holder"), Star(C(Ws)),
       Opt(C({":", "-"})), Star(C(Ws)), Grp(Plus(Dot))>>),
       Cat(<<S("Holder"), Star(C(Ws)), S("Name"), Star(C(Ws)), Opt(C({":",
       "-"})), Star(C(Ws)), Grp(Plus(Dot))>>),
       Cat(<<S("Customer"), Star(C(Ws)), Opt(S("Name")), Star(C(Ws)),
       C({":", "-"}), Star(C(Ws)), Grp(Plus(Dot))>>),
       Cat(<<Alt(<<Bol, S("\n")>>), Star(C(Ws)), S("Name"), Star(C(Ws)),
       C({":", "-"}), Star(C(Ws)), Grp(Plus(Dot))>>),
       Cat(<<Alt(<<S("Mr"), S("Mrs"), S("Ms"), S("Shri"), S("Smt"),
       S("Sri")>>), Opt(S(".")), Plus(C(Ws)),
       Grp(Cat(<<C(UpperAZ \cup LowerAZ),
       Rep(C(UpperAZ \cup LowerAZ \cup {" ", "."}), 2, Inf)>>))>>) >>

pb_account_number ==
    << Cat(<<S("A"), Alt(<<Cat(<<Opt(S("/")), S("c")>>), S("ccount"),
       S("cct")>>), Star(C(Ws)), Alt(<<Cat(<<S("No"), Opt(S("."))>>),
       S("Number"), S("Num"), S("#")>>), Star(C(Ws)), Opt(C({":", "-",
       "."})), Star(C(Ws)), Grp(Cat(<<C(Digit),
       Rep(C(Digit \cup Ws \cup {"-"}), 6, Inf), C(Digit)>>))>>),
       Cat(<<Alt(<<S("Savings"), S("Current")>>), Star(C(Ws)), S("A"),
       Alt(<<Cat(<<Opt(S("/")), S("c")>>), S("ccount")>>), Star(C(Ws)),
       Opt(C({":", "-"})), Star(C(Ws)), Grp(Cat(<<C(Digit),
       Rep(C(Digit \cup Ws \cup {"-"}), 6, Inf), C(Digit)>>))>>),
       Cat(<<S("A"), Opt(S("/")), C({"C", "c"}), Star(C(Ws)), Opt(C({":",
       "-", "."})), Star(C(Ws)), Grp(Rep(C(Digit), 9, 18))>>) >>

pb_account_type ==
    << Cat(<<Wb, Grp(Alt(<<S("Savings"), S("Current"), Cat(<<S("Fixed"),
       Star(C(Ws)), S("Deposit")>>), Cat(<<S("Recurring"), Star(C(Ws)),
       S("Deposit")>>)>>)), Wb, Star(C(Ws)), Opt(Alt(<<S("Account"),
       Cat(<<S("A"), Opt(S("/")), S("c")>>), S("Bank")>>))>>),
       Cat(<<Wb, Grp(Alt(<<S("SB"), S("CA"), S("FD"), S("RD")>>)), Wb,
       Star(C(Ws)), S("A"), Alt(<<S("ccount"), Cat(<<Opt(S("/")),
       S("c")>>)>>)>>) >>

pb_bank_name ==
    << Cat(<<Alt(<<Bol, S("\n"), C(Ws)>>), Grp(Cat(<<Alt(<<Cat(<<S("State"),
       Star(C(Ws)), S("Bank"), Star(C(Ws)), S("of"), Star(C(Ws)),
       S("India")>>), S("SBI"), Cat(<<S("HDFC"), Star(C(Ws)), S("Bank")>>),
       Cat(<<S("ICICI"), Star(C(Ws)), S("Bank")>>), Cat(<<S("Axis"),
       Star(C(Ws)), S("Bank")>>), Cat(<<S("Kotak"), Star(C(Ws)),
       Opt(S("Mahindra"))>>), S("PNB"), S("BOB"), Cat(<<S("Bank"),
       Star(C(Ws)), S("of"), Star(C(Ws)), S("Baroda")>>), Cat(<<S("Union"),
       Star(C(Ws)), S("Bank"), Opt(Cat(<<Star(C(Ws)), S("of"), Star(C(Ws)),
       S("India")>>))>>), Cat(<<S("Canara"), Star(C(Ws)), S("Bank")>>),
       Cat(<<S("Indian"), Star(C(Ws)), S("Bank")>>), S("BOI"),
       Cat(<<S("Bank"), Star(C(Ws)), S("of"), Star(C(Ws)), S("India")>>),
       Cat(<<S("Central"), Star(C(Ws)), S("Bank")>>), Cat(<<S("IDBI"),
       Star(C(Ws)), S("Bank")>>), Cat(<<S("Yes"), Star(C(Ws)), S("Bank")>>),
       Cat(<<S("IndusInd"), Star(C(Ws)), S("Bank")>>), Cat(<<S("Federal"),
       Star(C(Ws)), S("Bank")>>), Cat(<<S("South"), Star(C(Ws)),
       S("Indian"), Star(C(Ws)), S("Bank")>>), Cat(<<S("Bandhan"),
       Star(C(Ws)), S("Bank")>>), Cat(<<S("RBL"), Star(C(Ws)), S("Bank")>>),
       Cat(<<S("UCO"), Star(C(Ws)), S("Bank")>>), Cat(<<S("Punjab"),
       Star(C(Ws)), S("National"), Star(C(Ws)), S("Bank")>>),
       Cat(<<S("Indian"), Star(C(Ws)), S("Overseas"), Star(C(Ws)),
       S("Bank")>>), Cat(<<S("Allahabad"), Star(C(Ws)), S("Bank")>>),
       Cat(<<S("Dena"), Star(C(Ws)), S("Bank")>>), Cat(<<S("Syndicate"),
       Star(C(Ws)), S("Bank")>>), Cat(<<S("Oriental"), Star(C(Ws)),
       S("Bank")>>), Cat(<<S("Corporation"), Star(C(Ws)), S("Bank")>>),
       Cat(<<S("Andhra"), Star(C(Ws)), S("Bank")>>), Cat(<<S("Vijaya"),
       Star(C(Ws)), S("Bank")>>), Cat(<<S("Karnataka"), Star(C(Ws)),
       S("Bank")>>), Cat(<<S("Karur"), Star(C(Ws)), S("Vysya")>>),
       Cat(<<S("City"), Star(C(Ws)), S("Union"), Star(C(Ws)), S("Bank")>>),
       Cat(<<S("Tamilnad"), Star(C(Ws)), S("Mercantile")>>),
       Cat(<<S("Dhanlaxmi"), Star(C(Ws)), S("Bank")>>), Cat(<<S("Lakshmi"),
       Star(C(Ws)), S("Vilas")>>), Cat(<<S("Nainital"), Star(C(Ws)),
       S("Bank")>>), Cat(<<S("Jammu"), Star(C(Ws)), Opt(S("&")),
       Star(C(Ws)), S("Kashmir"), Star(C(Ws)), S("Bank")>>),
       Cat(<<S("Bank"), Star(C(Ws)), S("of"), Star(C(Ws)),
       S("Maharashtra")>>), Cat(<<S("IDFC"), Star(C(Ws)), S("First")>>)>>),
       Opt(Cat(<<Star(C(Ws)), Alt(<<S("Bank"), S("Ltd"),
       S("Limited")>>)>>))>>)), La(Alt(<<C(Ws \cup {",", ".", "\n"}),
       Eol>>))>>) >>

pb_branch_name ==
    << Cat(<<S("Branch"), Star(C(Ws)), Opt(S("Name")), Star(C(Ws)), C({":",
       "-"}), Star(C(Ws)), Grp(Plus(Dot))>>),
       Cat(<<S("Branch"), Star(C(Ws)), Opt(S("Name")), Star(C(Ws)),
       Opt(C({":", "-"})), Star(C(Ws)), Grp(Rep(Dot, 3, Inf))>>) >>

pb_ifsc_code ==
    << Cat(<<S("IFSC"), Star(C(Ws)), Opt(S("Code")), Star(C(Ws)),
       Opt(C({":", "-"})), Star(C(Ws)), Grp(Cat(<<Rep(C(UpperAZ), 4, 4),
       S("0"), Rep(C(UpperAZ \cup Digit), 6, 6)>>))>>),
       Cat(<<Alt(<<Bol, C(Ws \cup {":"})>>), Grp(Cat(<<Rep(C(UpperAZ), 4,
       4), S("0"), Rep(C(UpperAZ \cup Digit), 6, 6)>>)), Alt(<<C(Ws),
       Eol>>)>>) >>

pb_micr_code ==
    << Cat(<<S("MICR"), Star(C(Ws)), Opt(Alt(<<S("Code"), Cat(<<S("No"),
       Opt(S("."))>>)>>)), Star(C(Ws)), Opt(C({":", "-"})), Star(C(Ws)),
       Grp(Rep(C(Digit), 9, 9)), Wb>>) >>

pb_cif_number ==
    << Cat(<<S("CIF"), Alt(<<Cat(<<>>), Cat(<<Star(C(Ws)),
       Alt(<<Cat(<<S("No"), Opt(S("."))>>), S("Number"), S("ID")>>)>>)>>),
       Star(C(Ws)), Opt(C({":", "-"})), Star(C(Ws)), Grp(Rep(C(Digit), 6,
       Inf))>>),
       Cat(<<S("Customer"), Star(C(Ws)), S("I"), C({"D", "d"}), Star(C(Ws)),
       Opt(C({":", "-"})), Star(C(Ws)), Grp(Rep(C(Digit), 6, Inf))>>) >>

pb_nomination ==
    << Cat(<<S("Nominat"), Alt(<<S("ion"), S("ee")>>), Star(C(Ws)),
       Opt(C({":", "-"})), Star(C(Ws)), Grp(Plus(Dot))>>) >>

pb_joint_holder ==
    << Cat(<<S("Joint"), Star(C(Ws)), Alt(<<S("Holder"), Cat(<<S("Account"),
       Star(C(Ws)), S("Holder")>>), S("Name")>>), Star(C(Ws)), Opt(C({":",
       "-"})), Star(C(Ws)), Grp(Plus(Dot))>>) >>

pb_address ==
    << Cat(<<S("Addr"), Alt(<<S("ess"), Opt(S("."))>>), Star(C(Ws)), C({":",
       "-"}), Star(C(Ws)), Grp(Plus(Dot))>>) >>

pb_mobile_number ==
    << Cat(<<Alt(<<S("Mobile"), S("Phone"), S("Contact"), Cat(<<S("Mob"),
       Opt(S("."))>>)>>), Star(C(Ws)), Opt(Cat(<<S("N"), Alt(<<Cat(<<S("o"),
       Opt(S("."))>>), S("umber")>>)>>)), Star(C(Ws)), Opt(C({":", "-"})),
       Star(C(Ws)), Grp(Cat(<<Opt(S("+")), C(Digit),
       Rep(C(Digit \cup Ws \cup {"-"}), 8, Inf), C(Digit)>>))>>) >>

pb_date_of_opening ==
    << Cat(<<Alt(<<Cat(<<S("Date"), Star(C(Ws)), S("of"), Star(C(Ws)),
       S("Open"), Alt(<<S("ing"), Cat(<<>>)>>)>>), Cat(<<S("Opene"),
       Opt(S("d")), Star(C(Ws)), Alt(<<S("on"), S("Date")>>)>>),
       S("DOO")>>), Star(C(Ws)), Opt(C({":", "-"})), Star(C(Ws)),
       Grp(Cat(<<Rep(C(Digit), 1, 2), C({"/", "-"}), Rep(C(Digit), 1, 2),
       C({"/", "-"}), Rep(C(Digit), 2, 4)>>))>>),
       Cat(<<Alt(<<Cat(<<S("Date"), Star(C(Ws)), S("of"), Star(C(Ws)),
       S("Open"), Alt(<<S("ing"), Cat(<<>>)>>)>>), Cat(<<S("Opene"),
       Opt(S("d")), Star(C(Ws)), Alt(<<S("on"), S("Date")>>)>>),
       S("DOO")>>), Star(C(Ws)), Opt(C({":", "-"})), Star(C(Ws)),
       Grp(Cat(<<Rep(C(Digit), 1, 2), Plus(C(Ws)),
       Rep(C(UpperAZ \cup LowerAZ), 3, 9), Plus(C(Ws)), Rep(C(Digit), 4,
       4)>>))>>) >>

pb_credit_amount ==
    << Cat(<<S("Credit"), Alt(<<Cat(<<>>), S("ed")>>), Star(C(Ws)),
       Opt(C({":", "-"})), Star(C(Ws)), Opt(C({Rupee, "R", "s"})),
       Opt(S(".")), Star(C(Ws)), Grp(Cat(<<Plus(C(Digit \cup {","})),
       S("."), Rep(C(Digit), 1, 2)>>))>>),
       Cat(<<S("Credit"), Alt(<<Cat(<<>>), S("ed")>>), Star(C(Ws)),
       Opt(C({":", "-"})), Star(C(Ws)), Opt(C({Rupee, "R", "s"})),
       Opt(S(".")), Star(C(Ws)), Grp(Plus(C(Digit \cup {","})))>>),
       Cat(<<S("Deposit"), Star(C(Ws)), Opt(C({":", "-"})), Star(C(Ws)),
       Opt(C({Rupee, "R", "s"})), Opt(S(".")), Star(C(Ws)),
       Grp(Cat(<<Plus(C(Digit \cup {","})), Opt(S(".")), Rep(C(Digit), 0,
       2)>>))>>),
       Cat(<<C({Rupee, "R", "s"}), Opt(S(".")), Star(C(Ws)),
       Grp(Cat(<<Plus(C(Digit \cup {","})), Opt(S(".")), Rep(C(Digit), 0,
       2)>>)), Star(C(Ws)), S("Cr"), Alt(<<Cat(<<>>), S("edit")>>)>>) >>

pb_debit_amount ==
    << Cat(<<S("D"), Alt(<<S("ebit"), S("ebited"), S("r")>>), Star(C(Ws)),
       Opt(C({":", "-"})), Star(C(Ws)), Opt(C({Rupee, "R", "s"})),
       Opt(S(".")), Star(C(Ws)), Grp(Cat(<<Plus(C(Digit \cup {","})),
       S("."), Rep(C(Digit), 1, 2)>>))>>),
       Cat(<<S("D"), Alt(<<S("ebit"), S("ebited"), S("r")>>), Star(C(Ws)),
       Opt(C({":", "-"})), Star(C(Ws)), Opt(C({Rupee, "R", "s"})),
       Opt(S(".")), Star(C(Ws)), Grp(Plus(C(Digit \cup {","})))>>),
       Cat(<<S("Withdraw"), Alt(<<S("al"), Cat(<<>>)>>), Star(C(Ws)),
       Opt(C({":", "-"})), Star(C(Ws)), Opt(C({Rupee, "R", "s"})),
       Opt(S(".")), Star(C(Ws)), Grp(Cat(<<Plus(C(Digit \cup {","})),
       Opt(S(".")), Rep(C(Digit), 0, 2)>>))>>),
       Cat(<<C({Rupee, "R", "s"}), Opt(S(".")), Star(C(Ws)),
       Grp(Cat(<<Plus(C(Digit \cup {","})), Opt(S(".")), Rep(C(Digit), 0,
       2)>>)), Star(C(Ws)), S("D"), Alt(<<S("r"), S("ebit")>>)>>) >>

pb_balance ==
    << Cat(<<S("Av"), Alt(<<S("ailable"), Cat(<<S("l"), Opt(S("."))>>)>>),
       Star(C(Ws)), S("Bal"), Opt(S("ance")), Opt(S(".")), Star(C(Ws)),
       Opt(C({":", "-"})), Star(C(Ws)), Opt(C({Rupee, "R", "s"})),
       Opt(S(".")), Star(C(Ws)), Grp(Cat(<<Plus(C(Digit \cup {","})),
       S("."), Rep(C(Digit), 1, 2)>>))>>),
       Cat(<<S("Av"), Alt(<<S("ailable"), Cat(<<S("l"), Opt(S("."))>>)>>),
       Star(C(Ws)), S("Bal"), Opt(S("ance")), Opt(S(".")), Star(C(Ws)),
       Opt(C({":", "-"})), Star(C(Ws)), Opt(C({Rupee, "R", "s"})),
       Opt(S(".")), Star(C(Ws)), Grp(Plus(C(Digit \cup {","})))>>),
       Cat(<<S("Balance"), Star(C(Ws)), Opt(C({":", "-"})), Star(C(Ws)),
       Opt(C({Rupee, "R", "s"})), Opt(S(".")), Star(C(Ws)),
       Grp(Cat(<<Plus(C(Digit \cup {","})), S("."), Rep(C(Digit), 1,
       2)>>))>>),
       Cat(<<S("Balance"), Star(C(Ws)), Opt(C({":", "-"})), Star(C(Ws)),
       Opt(C({Rupee, "R", "s"})), Opt(S(".")), Star(C(Ws)),
       Grp(Plus(C(Digit \cup {","})))>>) >>

pb_opening_balance ==
    << Cat(<<S("Open"), Alt(<<S("ing"), Cat(<<Opt(S("ing")),
       Opt(S("."))>>)>>), Star(C(Ws)), S("Bal"), Opt(S("ance")),
       Opt(S(".")), Star(C(Ws)), Opt(C({":", "-"})), Star(C(Ws)),
       Opt(C({Rupee, "R", "s"})), Opt(S(".")), Star(C(Ws)),
       Grp(Cat(<<Plus(C(Digit \cup {","})), Opt(S(".")), Rep(C(Digit), 0,
       2)>>))>>),
       Cat(<<S("Op"), Opt(S(".")), Star(C(Ws)), S("Bal"), Opt(S(".")),
       Star(C(Ws)), Opt(C({":", "-"})), Star(C(Ws)), Opt(C({Rupee, "R",
       "s"})), Opt(S(".")), Star(C(Ws)),
       Grp(Cat(<<Plus(C(Digit \cup {","})), Opt(S(".")), Rep(C(Digit), 0,
       2)>>))>>) >>

pb_closing_balance ==
    << Cat(<<S("Clos"), Alt(<<S("ing"), Cat(<<Opt(S("ing")),
       Opt(S("."))>>)>>), Star(C(Ws)), S("Bal"), Opt(S("ance")),
       Opt(S(".")), Star(C(Ws)), Opt(C({":", "-"})), Star(C(Ws)),
       Opt(C({Rupee, "R", "s"})), Opt(S(".")), Star(C(Ws)),
       Grp(Cat(<<Plus(C(Digit \cup {","})), Opt(S(".")), Rep(C(Digit), 0,
       2)>>))>>),
       Cat(<<S("Cl"), Opt(S(".")), Star(C(Ws)), S("Bal"), Opt(S(".")),
       Star(C(Ws)), Opt(C({":", "-"})), Star(C(Ws)), Opt(C({Rupee, "R",
       "s"})), Opt(S(".")), Star(C(Ws)),
       Grp(Cat(<<Plus(C(Digit \cup {","})), Opt(S(".")), Rep(C(Digit), 0,
       2)>>))>>) >>

pb_cheque_number ==
    << Cat(<<S("C"), Alt(<<S("heque"), S("hq"), S("HQ")>>), Star(C(Ws)),
       Opt(Alt(<<Cat(<<S("No"), Opt(S("."))>>), S("Number"), S("#")>>)),
       Star(C(Ws)), Opt(C({":", "-"})), Star(C(Ws)), Grp(Rep(C(Digit), 6,
       Inf))>>) >>

pb_narration ==
    << Cat(<<Alt(<<S("Narration"), S("Description"), S("Particulars"),
       S("Remark"), S("Details")>>), Star(C(Ws)), Opt(C({":", "-"})),
       Star(C(Ws)), Grp(Plus(Dot))>>) >>

pb_transaction_type ==
    << Cat(<<Wb, Grp(Alt(<<S("NEFT"), S("RTGS"), S("IMPS"), S("UPI"),
       S("ATM"), S("POS"), S("ECS"), S("NACH"), S("CASH"), S("CHQ"),
       S("FT"), S("TRANSFER")>>)), Wb>>),
       Cat(<<Alt(<<S("Mode"), S("Type"), S("Channel")>>), Star(C(Ws)),
       Opt(C({":", "-"})), Star(C(Ws)), Grp(Alt(<<S("NEFT"), S("RTGS"),
       S("IMPS"), S("UPI"), S("ATM"), S("POS"), S("ECS"), S("NACH")>>))>>) >>

pb_date ==
    << Cat(<<Alt(<<S("Date"), S("Dt"), Cat(<<S("Txn"), Star(C(Ws)),
       S("Date")>>), Cat(<<S("Value"), Star(C(Ws)), S("Date")>>)>>),
       Star(C(Ws)), Opt(C({":", "-"})), Star(C(Ws)), Grp(Cat(<<Rep(C(Digit),
       1, 2), C({"/", "-"}), Rep(C(Digit), 1, 2), C({"/", "-"}),
       Rep(C(Digit), 2, 4)>>))>>),
       Grp(Cat(<<Rep(C(Digit), 1, 2), Plus(C(Ws)),
       Rep(C(UpperAZ \cup LowerAZ), 3, 9), Plus(C(Ws)), Rep(C(Digit), 4,
       4)>>)),
       Grp(Cat(<<Rep(C(Digit), 1, 2), C({"/", "-"}), Rep(C(Digit), 1, 2),
       C({"/", "-"}), Rep(C(Digit), 2, 4)>>)),
       Grp(Cat(<<Rep(C(Digit), 4, 4), S("-"), Rep(C(Digit), 2, 2), S("-"),
       Rep(C(Digit), 2, 2)>>)) >>

pb_reference_number ==
    << Cat(<<S("Ref"), Alt(<<Cat(<<>>), S("erence")>>), Star(C(Ws)),
       Opt(Alt(<<Cat(<<S("No"), Opt(S("."))>>), S("Number"), S("ID"),
       S("#")>>)), Star(C(Ws)), Opt(C({":", "-"})), Star(C(Ws)),
       Grp(Rep(C(Digit), 8, Inf))>>),
       Cat(<<S("UTR"), Star(C(Ws)), Opt(Cat(<<S("No"), Opt(S("."))>>)),
       Star(C(Ws)), Opt(C({":", "-"})), Star(C(Ws)), Grp(Rep(C(Digit), 8,
       Inf))>>),
       Cat(<<S("T"), Alt(<<S("xn"), S("ransaction")>>), Star(C(Ws)),
       Alt(<<Cat(<<S("No"), Opt(S("."))>>), S("ID"), S("#")>>), Star(C(Ws)),
       Opt(C({":", "-"})), Star(C(Ws)), Grp(Rep(C(Word), 8, Inf))>>) >>

passbook_patterns ==
    [account_holder |-> pb_account_holder,
     account_number |-> pb_account_number,
     account_type |-> pb_account_type,
     bank_name |-> pb_bank_name,
     branch_name |-> pb_branch_name,
     ifsc_code |-> pb_ifsc_code,
     micr_code |-> pb_micr_code,
     cif_number |-> pb_cif_number,
     nomination |-> pb_nomination,
     joint_holder |-> pb_joint_holder,
     address |-> pb_address,
     mobile_number |-> pb_mobile_number,
     date_of_opening |-> pb_date_of_opening,
     credit_amount |-> pb_credit_amount,
     debit_amount |-> pb_debit_amount,
     balance |-> pb_balance,
     opening_balance |-> pb_opening_balance,
     closing_balance |-> pb_closing_balance,
     cheque_number |-> pb_cheque_number,
     narration |-> pb_narration,
     transaction_type |-> pb_transaction_type,
     date |-> pb_date,
     reference_number |-> pb_reference_number]


\* self._passbook_multiline_labels: (label_regex, field_key, value_regex)
_passbook_multiline_labels ==
    << [label |-> Cat(<<S("A"), Alt(<<Cat(<<Opt(S("/")), S("c")>>),
                  S("ccount"), S("cct")>>), Star(C(Ws)),
                  Alt(<<Cat(<<S("No"), Opt(S("."))>>), S("Number"),
                  S("Num"), S("#")>>), Star(C(Ws)), Opt(C({":", "-", "."})),
                  Star(C(Ws)), Eol>>),
        field |-> "Account Number",
        value |-> Cat(<<Bol, Star(C(Ws)), Grp(Cat(<<C(Digit),
                  Rep(C(Digit \cup Ws \cup {"-"}), 6, Inf), C(Digit)>>)),
                  Star(C(Ws)), Eol>>)],
       [label |-> Cat(<<S("A"), Alt(<<S("ccount"), Cat(<<Opt(S("/")),
                  S("c")>>)>>), Star(C(Ws)), S("Holder"), Alt(<<Cat(<<>>),
                  Cat(<<Star(C(Ws)), S("Name")>>)>>), Star(C(Ws)),
                  Opt(C({":", "-"})), Star(C(Ws)), Eol>>),
        field |-> "Account Holder",
        value |-> Cat(<<Bol, Star(C(Ws)), Grp(Rep(Dot, 2, Inf)),
                  Star(C(Ws)), Eol>>)],
       [label |-> Cat(<<S("Customer"), Star(C(Ws)), Opt(S("Name")),
                  Star(C(Ws)), Opt(C({":", "-"})), Star(C(Ws)), Eol>>),
        field |-> "Account Holder",
        value |-> Cat(<<Bol, Star(C(Ws)), Grp(Rep(Dot, 2, Inf)),
                  Star(C(Ws)), Eol>>)],
       [label |-> Cat(<<S("Holder"), Star(C(Ws)), Opt(S("Name")),
                  Star(C(Ws)), Opt(C({":", "-"})), Star(C(Ws)), Eol>>),
        field |-> "Account Holder",
        value |-> Cat(<<Bol, Star(C(Ws)), Grp(Rep(Dot, 2, Inf)),
                  Star(C(Ws)), Eol>>)],
       [label |-> Cat(<<Bol, Star(C(Ws)), S("Name"), Star(C(Ws)),
                  Opt(C({":", "-"})), Star(C(Ws)), Eol>>),
        field |-> "Account Holder",
        value |-> Cat(<<Bol, Star(C(Ws)), Grp(Cat(<<C(UpperAZ \cup LowerAZ),
                  Star(Dot)>>)), Star(C(Ws)), Eol>>)],
       [label |-> Cat(<<S("Branch"), Star(C(Ws)), Opt(S("Name")),
                  Star(C(Ws)), Opt(C({":", "-"})), Star(C(Ws)), Eol>>),
        field |-> "Branch Name",
        value |-> Cat(<<Bol, Star(C(Ws)), Grp(Rep(Dot, 3, Inf)),
                  Star(C(Ws)), Eol>>)],
       [label |-> Cat(<<S("IFSC"), Star(C(Ws)), Opt(S("Code")), Star(C(Ws)),
                  Opt(C({":", "-"})), Star(C(Ws)), Eol>>),
        field |-> "IFSC Code",
        value |-> Cat(<<Bol, Star(C(Ws)), Grp(Cat(<<Rep(C(UpperAZ), 4, 4),
                  S("0"), Rep(C(UpperAZ \cup Digit), 6, 6)>>)), Star(C(Ws)),
                  Eol>>)],
       [label |-> Cat(<<S("MICR"), Star(C(Ws)), Opt(Alt(<<S("Code"),
                  Cat(<<S("No"), Opt(S("."))>>)>>)), Star(C(Ws)),
                  Opt(C({":", "-"})), Star(C(Ws)), Eol>>),
        field |-> "MICR Code",
        value |-> Cat(<<Bol, Star(C(Ws)), Grp(Rep(C(Digit), 9, 9)),
                  Star(C(Ws)), Eol>>)],
       [label |-> Cat(<<S("Bal"), Alt(<<S("ance"), Opt(S("."))>>),
                  Star(C(Ws)), Opt(C({":", "-"})), Star(C(Ws)), Eol>>),
        field |-> "Balance ($)",
        value |-> Cat(<<Bol, Star(C(Ws)), Opt(C({Rupee, "R", "s"})),
                  Opt(S(".")), Star(C(Ws)),
                  Grp(Cat(<<Plus(C(Digit \cup {","})), Opt(S(".")),
                  Rep(C(Digit), 0, 2)>>)), Star(C(Ws)), Eol>>)],
       [label |-> Cat(<<S("Ref"), Alt(<<Cat(<<>>), S("erence")>>),
                  Star(C(Ws)), Opt(Alt(<<Cat(<<S("No"), Opt(S("."))>>),
                  S("Number"), S("ID")>>)), Star(C(Ws)), Opt(C({":", "-"})),
                  Star(C(Ws)), Eol>>),
        field |-> "Reference Number",
        value |-> Cat(<<Bol, Star(C(Ws)), Grp(Rep(C(Digit), 8, Inf)),
                  Star(C(Ws)), Eol>>)],
       [label |-> Cat(<<S("C"), Alt(<<S("IF"), Cat(<<S("ustomer"),
                  Star(C(Ws)), S("ID")>>)>>), Star(C(Ws)), Opt(Cat(<<S("N"),
                  Alt(<<Cat(<<S("o"), Opt(S("."))>>), S("umber")>>)>>)),
                  Star(C(Ws)), Opt(C({":", "-"})), Star(C(Ws)), Eol>>),
        field |-> "CIF Number",
        value |-> Cat(<<Bol, Star(C(Ws)), Grp(Rep(C(Digit), 6, Inf)),
                  Star(C(Ws)), Eol>>)],
       [label |-> Cat(<<S("Nominat"), Alt(<<S("ion"), S("ee")>>),
                  Star(C(Ws)), Opt(C({":", "-"})), Star(C(Ws)), Eol>>),
        field |-> "Nomination",
        value |-> Cat(<<Bol, Star(C(Ws)), Grp(Rep(Dot, 2, Inf)),
                  Star(C(Ws)), Eol>>)],
       [label |-> Cat(<<S("Addr"), Alt(<<S("ess"), Opt(S("."))>>),
                  Star(C(Ws)), Opt(C({":", "-"})), Star(C(Ws)), Eol>>),
        field |-> "Address",
        value |-> Cat(<<Bol, Star(C(Ws)), Grp(Rep(Dot, 3, Inf)),
                  Star(C(Ws)), Eol>>)],
       [label |-> Cat(<<S("Joint"), Star(C(Ws)), Alt(<<S("Holder"),
                  Cat(<<S("Account"), Star(C(Ws)), S("Holder")>>),
                  S("Name")>>), Star(C(Ws)), Opt(C({":", "-"})),
                  Star(C(Ws)), Eol>>),
        field |-> "Joint Holder",
        value |-> Cat(<<Bol, Star(C(Ws)), Grp(Rep(Dot, 2, Inf)),
                  Star(C(Ws)), Eol>>)],
       [label |-> Cat(<<Alt(<<S("Mobile"), S("Phone"), S("Contact"),
                  Cat(<<S("Mob"), Opt(S("."))>>)>>), Star(C(Ws)),
                  Opt(Cat(<<S("N"), Alt(<<Cat(<<S("o"), Opt(S("."))>>),
                  S("umber")>>)>>)), Star(C(Ws)), Opt(C({":", "-"})),
                  Star(C(Ws)), Eol>>),
        field |-> "Mobile Number",
        value |-> Cat(<<Bol, Star(C(Ws)), Grp(Cat(<<Opt(S("+")), C(Digit),
                  Rep(C(Digit \cup Ws \cup {"-"}), 8, Inf), C(Digit)>>)),
                  Star(C(Ws)), Eol>>)],
       [label |-> Cat(<<Alt(<<Cat(<<S("Date"), Star(C(Ws)), S("of"),
                  Star(C(Ws)), S("Open"), Alt(<<S("ing"), Cat(<<>>)>>)>>),
                  Cat(<<S("Opene"), Opt(S("d")), Star(C(Ws)), Alt(<<S("on"),
                  S("Date")>>)>>), S("DOO")>>), Star(C(Ws)), Opt(C({":",
                  "-"})), Star(C(Ws)), Eol>>),
        field |-> "Date of Opening",
        value |-> Cat(<<Bol, Star(C(Ws)), Grp(Cat(<<Rep(C(Digit), 1, 2),
                  C({"/", "-"}), Rep(C(Digit), 1, 2), C({"/", "-"}),
                  Rep(C(Digit), 2, 4)>>)), Star(C(Ws)), Eol>>)],
       [label |-> Cat(<<Alt(<<S("Narration"), S("Particulars"),
                  S("Remark")>>), Star(C(Ws)), Opt(C({":", "-"})),
                  Star(C(Ws)), Eol>>),
        field |-> "Narration",
        value |-> Cat(<<Bol, Star(C(Ws)), Grp(Rep(Dot, 3, Inf)),
                  Star(C(Ws)), Eol>>)],
       [label |-> Cat(<<S("Ch"), Alt(<<S("eque"), S("q")>>), Star(C(Ws)),
                  Opt(Cat(<<S("N"), Alt(<<Cat(<<S("o"), Opt(S("."))>>),
                  S("umber")>>)>>)), Star(C(Ws)), Opt(C({":", "-"})),
                  Star(C(Ws)), Eol>>),
        field |-> "Cheque Number",
        value |-> Cat(<<Bol, Star(C(Ws)), Grp(Rep(C(Digit), 6, Inf)),
                  Star(C(Ws)), Eol>>)] >>

\* ---------------------------------------------------------------------
\* Common helpers.  In the folds below (loops of the source), the test
\* "DOMAIN next = {}" is never true of a details dict: it only makes the
\* value of one iteration be computed before the next iteration starts.
\* ---------------------------------------------------------------------

\* len(match.groups()): the number of groups of a pattern
RECURSIVE NGroups(_)
RECURSIVE NGroupsSeq(_)
NGroups(r) ==
    CASE r.t = "grp" -> 1 + NGroups(r.r)
      [] r.t \in {"rep", "la"} -> NGroups(r.r)
      [] r.t \in {"seq", "alt"} -> NGroupsSeq(r.rs)
      [] OTHER -> 0
NGroupsSeq(rs) ==
    IF Len(rs) = 0 THEN 0 ELSE NGroups(Head(rs)) + NGroupsSeq(Tail(rs))

\* The value _find_match returns for a match m of pattern r in text
MatchValue(r, text, m) ==
    IF NGroups(r) > 0 THEN Strip(Group1(text, m)) ELSE Strip(Group0(text, m))

\* Variant of the loop that lets the last-declared matching rule win
RECURSIVE FindMatchInLastWins(_, _)
FindMatchInLastWins(pats, text) ==
    IF Len(pats) = 0 THEN ""
    ELSE LET last == pats[Len(pats)]
             m    == Search(last, text, TRUE)
         IN  IF m.ok THEN MatchValue(last, text, m)
             ELSE FindMatchInLastWins(SubSeq(pats, 1, Len(pats) - 1), text)

\* The loop of _find_match over the rule list, in declaration order
RECURSIVE FindMatchIn(_, _)
FindMatchIn(pats, text) ==
    IF Len(pats) = 0 THEN ""
    ELSE LET m == Search(Head(pats), text, TRUE)
         IN  IF m.ok THEN MatchValue(Head(pats), text, m)
             ELSE FindMatchIn(Tail(pats), text)

\* dict.get(pattern_key, [])
PatternsOf(pattern_dict, pattern_key) ==
    IF pattern_key \in DOMAIN pattern_dict THEN pattern_dict[pattern_key]
    ELSE <<>>

\* _find_match(pattern_key, text, pattern_dict)
FindMatch(pattern_key, text, pattern_dict) ==
    FindMatchIn(PatternsOf(pattern_dict, pattern_key), text)

\* The characters of s that are in keep, in order
RECURSIVE Filter(_, _)
Filter(s, keep) ==
    IF Len(s) = 0 THEN ""
    ELSE IF Len(s) = 1 THEN (IF s \in keep THEN s ELSE "")
    ELSE LET h == Len(s) \div 2
         IN  Filter(SubSeq(s, 1, h), keep) \o Filter(SubSeq(s, h + 1, Len(s)), keep)

Count(s, set) == Cardinality({i \in 1..Len(s) : Ch(s, i) \in set})

\* float(s) succeeds, for s made of digits and "." (all that re.sub leaves):
\* at least one digit and at most one decimal point
FloatParses(s) ==
    /\ AllIn(s, Digit \cup {"."})
    /\ Count(s, Digit) >= 1
    /\ Count(s, {"."}) <= 1

\* Variant of _clean_amount that keeps the stripped text even when it is
\* not a number
CleanAmountAlwaysStripped(raw) ==
    IF raw = "" THEN "" ELSE Filter(raw, Digit \cup {"."})

\* _clean_amount(raw)
CleanAmount(raw) ==
    IF raw = "" THEN ""
    ELSE LET clean == Filter(raw, Digit \cup {"."})
         IN  IF FloatParses(clean) THEN clean ELSE raw

\* details[key] = value
SetItem(d, key, value) == (key :> value) @@ d

\* the elements of a list, as set(list) holds them
ToSet(seq) == {seq[i] : i \in 1..Len(seq)}

\* The orders in which a set can be iterated
Orders(set) ==
    {f \in [1..Cardinality(set) -> set] : \A i, j \in DOMAIN f : f[i] = f[j] => i = j}

\* ---------------------------------------------------------------------
\* UPI screenshot extraction (parse_details, source_type # 'passbook')
\* ---------------------------------------------------------------------

ScreenshotKeys ==
    {"File Name", "UPI Transaction ID", "Google Transaction ID", "Reference ID",
     "From (Sender)", "To (Receiver)", "UPI ID / VPA", "Bank Name", "Amount",
     "Payment Status", "Date", "Time", "Transaction Note", "All Extracted Text"}

\* Variant of the dict literal without the 'Transaction Note' entry
ScreenshotEmptyWithoutNote(text, filename) ==
    [k \in ScreenshotKeys \ {"Transaction Note"} |->
        IF k = "File Name" THEN filename
        ELSE IF k = "All Extracted Text" THEN Strip(text)
        ELSE ""]

\* The details dict as created, every field empty
ScreenshotEmpty(text, filename) ==
    [k \in ScreenshotKeys |->
        IF k = "File Name" THEN filename
        ELSE IF k = "All Extracted Text" THEN Strip(text)
        ELSE ""]

\* Variant of the chain that ends in a default status
PaymentStatusDefaultsPending(status_raw) ==
    IF Contains(status_raw, "SUCCESS") \/ Contains(status_raw, "COMPLETED") THEN "SUCCESS"
    ELSE IF Contains(status_raw, "FAIL") THEN "FAILED"
    ELSE "PENDING"

\* The if/elif chain on status_raw
PaymentStatus(status_raw) ==
    IF Contains(status_raw, "SUCCESS") \/ Contains(status_raw, "COMPLETED") THEN "SUCCESS"
    ELSE IF Contains(status_raw, "FAIL") THEN "FAILED"
    ELSE IF Contains(status_raw, "PENDING") \/ Contains(status_raw, "PROCESSING") THEN "PENDING"
    ELSE ""

\* Amount, UPI ID, Date, Time, Payment Status
ScreenshotInline(text, filename) ==
    LET d0 == ScreenshotEmpty(text, filename)
        d1 == SetItem(d0, "Amount", CleanAmount(FindMatch("amount", text, patterns)))
        d2 == SetItem(d1, "UPI ID / VPA", FindMatch("upi_id", text, patterns))
        d3 == SetItem(d2, "Date", FindMatch("date", text, patterns))
        d4 == SetItem(d3, "Time", FindMatch("time", text, patterns))
        st == PaymentStatus(Upper(FindMatch("status", text, patterns)))
    IN  IF st = "" THEN d4 ELSE SetItem(d4, "Payment Status", st)

\* all_ids: re.findall of every txn_id pattern, in pattern order
RECURSIVE AllIdsOf(_, _)
AllIdsOf(pats, text) ==
    IF Len(pats) = 0 THEN <<>>
    ELSE FindAll(Head(pats), text, TRUE) \o AllIdsOf(Tail(pats), text)

AllIds(text) == AllIdsOf(patterns["txn_id"], text)

\* Variant of the classification that files a Google-style token under a
\* key the dict literal does not declare
ClassifyTxnUndeclaredKey(details, token) ==
    LET txn == Strip(token)
    IN  IF txn = "" THEN details
        ELSE IF Contains(txn, "CIC") \/ (Len(txn) > 20 /\ ~IsDigit(txn))
             THEN SetItem(details, "Google Txn ID", txn)
        ELSE IF IsDigit(txn) /\ Len(txn) >= 12
             THEN SetItem(details, "Reference ID", txn)
        ELSE IF Len(txn) > 8
             THEN SetItem(details, "UPI Transaction ID", txn)
        ELSE details

\* Variant of the classification that accepts a token of 8 characters as a
\* UPI transaction id
ClassifyTxnFromEight(details, token) ==
    LET txn == Strip(token)
    IN  IF txn = "" THEN details
        ELSE IF Contains(txn, "CIC") \/ (Len(txn) > 20 /\ ~IsDigit(txn))
             THEN SetItem(details, "Google Transaction ID", txn)
        ELSE IF IsDigit(txn) /\ Len(txn) >= 12
             THEN SetItem(details, "Reference ID", txn)
        ELSE IF Len(txn) >= 8
             THEN SetItem(details, "UPI Transaction ID", txn)
        ELSE details

\* Variant of the classification that tests the length before the digits
ClassifyTxnLengthFirst(details, token) ==
    LET txn == Strip(token)
    IN  IF txn = "" THEN details
        ELSE IF Contains(txn, "CIC") \/ (Len(txn) > 20 /\ ~IsDigit(txn))
             THEN SetItem(details, "Google Transaction ID", txn)
        ELSE IF Len(txn) > 8
             THEN SetItem(details, "UPI Transaction ID", txn)
        ELSE IF IsDigit(txn) /\ Len(txn) >= 12
             THEN SetItem(details, "Reference ID", txn)
        ELSE details

\* The body of "for txn in set(all_ids)" for one token
ClassifyTxn(details, token) ==
    LET txn == Strip(token)
    IN  IF txn = "" THEN details
        ELSE IF Contains(txn, "CIC") \/ (Len(txn) > 20 /\ ~IsDigit(txn))
             THEN SetItem(details, "Google Transaction ID", txn)
        ELSE IF IsDigit(txn) /\ Len(txn) >= 12
             THEN SetItem(details, "Reference ID", txn)
        ELSE IF Len(txn) > 8
             THEN SetItem(details, "UPI Transaction ID", txn)
        ELSE details

RECURSIVE ClassifyAll(_, _, _)
ClassifyAll(details, order, i) ==
    IF i > Len(order) THEN details
    ELSE LET next == ClassifyTxn(details, order[i])
         IN  IF DOMAIN next = {} THEN next ELSE ClassifyAll(next, order, i + 1)

\* lines = [line.strip() for line in text.split('\n') if line.strip()]
RECURSIVE StripAll(_, _)
StripAll(ls, dropBlank) ==
    IF Len(ls) = 0 THEN <<>>
    ELSE LET l == Strip(Head(ls))
         IN  (IF dropBlank /\ l = "" THEN <<>> ELSE <<l>>)
             \o StripAll(Tail(ls), dropBlank)

NonBlankLines(text) == StripAll(Split(text, "\n"), TRUE)

\* r'^to\s*[:\-]?\s*' and r'^from\s*[:\-]?\s*'
to_label   == Cat(<<Bol, S("to"), Star(C(Ws)), Opt(C({":", "-"})), Star(C(Ws))>>)
from_label == Cat(<<Bol, S("from"), Star(C(Ws)), Opt(C({":", "-"})), Star(C(Ws))>>)

\* re.sub(label, '', line, flags=re.IGNORECASE).strip() for a pattern
\* anchored at the start of the (newline-free) line
StripLabel(label, line) ==
    LET m == MatchAt(label, line, 1, TRUE)
    IN  Strip(IF m.ok THEN SubSeq(line, m.e, Len(line)) ELSE line)

\* any(x in line.lower() for x in ['ref', 'id', 'no'])
HasRefWord(line) ==
    \E w \in {"ref", "id", "no"} : Contains(Lower(line), w)

\* Variant of the bank heuristic without "and not details['Bank Name']"
BankLineOverwrites(details, lines, i) ==
    IF /\ Contains(lines[i], "Bank")
       /\ Len(lines[i]) < 40
       /\ ~HasRefWord(lines[i])
    THEN SetItem(details, "Bank Name", lines[i])
    ELSE details

BankLine(details, lines, i) ==
    IF /\ Contains(lines[i], "Bank")
       /\ details["Bank Name"] = ""
       /\ Len(lines[i]) < 40
       /\ ~HasRefWord(lines[i])
    THEN SetItem(details, "Bank Name", lines[i])
    ELSE details

ReceiverLine(details, lines, i) ==
    IF /\ StartsWith(Lower(lines[i]), "to") \/ Lower(lines[i]) = "paid to"
       /\ details["To (Receiver)"] = ""
    THEN LET clean == StripLabel(to_label, lines[i])
         IN  IF clean # "" THEN SetItem(details, "To (Receiver)", clean)
             ELSE IF i + 1 <= Len(lines)
                  THEN SetItem(details, "To (Receiver)", lines[i + 1])
             ELSE details
    ELSE details

SenderLine(details, lines, i) ==
    IF /\ StartsWith(Lower(lines[i]), "from")
       /\ details["From (Sender)"] = ""
    THEN LET clean == StripLabel(from_label, lines[i])
         IN  IF clean # "" THEN SetItem(details, "From (Sender)", clean)
             ELSE IF i + 1 <= Len(lines)
                  THEN SetItem(details, "From (Sender)", lines[i + 1])
             ELSE details
    ELSE details

\* The body of the heuristic line scan for line i (1-based here)
HeuristicLine(details, lines, i) ==
    SenderLine(ReceiverLine(BankLine(details, lines, i), lines, i), lines, i)

RECURSIVE HeuristicScan(_, _, _)
HeuristicScan(details, lines, i) ==
    IF i > Len(lines) THEN details
    ELSE LET next == HeuristicLine(details, lines, i)
         IN  IF DOMAIN next = {} THEN next ELSE HeuristicScan(next, lines, i + 1)

\* parse_details for a screenshot, the candidate tokens iterated in `order`
ParseScreenshot(text, filename, order) ==
    HeuristicScan(ClassifyAll(ScreenshotInline(text, filename), order, 1),
                  NonBlankLines(text), 1)

\* ---------------------------------------------------------------------
\* Passbook extraction (_parse_passbook_details, _scan_passbook_lines)
\* ---------------------------------------------------------------------

PassbookKeys ==
    {"File Name", "Bank Name", "Account Holder", "Account Number", "Account Type",
     "IFSC Code", "MICR Code", "Branch Name", "CIF Number",
     "Date of Opening", "Nomination", "Joint Holder", "Address", "Mobile Number",
     "Date", "Transaction Type", "Narration", "Reference Number", "Cheque Number",
     "Credit ($)", "Debit ($)", "Balance ($)", "Opening Balance ($)",
     "Closing Balance ($)", "All Extracted Text"}

\* The pattern group that fills each key in pass 1
InlineGroup ==
    [k \in PassbookKeys \ {"File Name", "All Extracted Text"} |->
        CASE k = "Bank Name" -> "bank_name"
          [] k = "Account Holder" -> "account_holder"
          [] k = "Account Number" -> "account_number"
          [] k = "Account Type" -> "account_type"
          [] k = "IFSC Code" -> "ifsc_code"
          [] k = "MICR Code" -> "micr_code"
          [] k = "Branch Name" -> "branch_name"
          [] k = "CIF Number" -> "cif_number"
          [] k = "Date of Opening" -> "date_of_opening"
          [] k = "Nomination" -> "nomination"
          [] k = "Joint Holder" -> "joint_holder"
          [] k = "Address" -> "address"
          [] k = "Mobile Number" -> "mobile_number"
          [] k = "Date" -> "date"
          [] k = "Transaction Type" -> "transaction_type"
          [] k = "Narration" -> "narration"
          [] k = "Reference Number" -> "reference_number"
          [] k = "Cheque Number" -> "cheque_number"
          [] k = "Credit ($)" -> "credit_amount"
          [] k = "Debit ($)" -> "debit_amount"
          [] k = "Balance ($)" -> "balance"
          [] k = "Opening Balance ($)" -> "opening_balance"
          [] k = "Closing Balance ($)" -> "closing_balance"]

\* The keys whose pass 1 value goes through _clean_amount
AmountKeys ==
    {"Credit ($)", "Debit ($)", "Balance ($)", "Opening Balance ($)",
     "Closing Balance ($)"}

\* Pass 1: the details dict literal of _parse_passbook_details
PassbookInline(text, filename) ==
    [k \in PassbookKeys |->
        IF k = "File Name" THEN filename
        ELSE IF k = "All Extracted Text" THEN Strip(text)
        ELSE IF k \in AmountKeys
             THEN CleanAmount(FindMatch(InlineGroup[k], text, passbook_patterns))
        ELSE FindMatch(InlineGroup[k], text, passbook_patterns)]

\* details.get(key), read for its truth value or compared with a string
Get(details, key) == IF key \in DOMAIN details THEN details[key] ELSE ""

\* lines = [line.strip() for line in text.split('\n')]
ScanLines(text) == StripAll(Split(text, "\n"), FALSE)

\* Variant that reads the line right after line i, blank or not
GetNextLine(lines, i) ==
    IF i < Len(lines) THEN Strip(lines[i + 1]) ELSE ""

\* _get_next_nonempty(start_idx): the next non-blank line after line i, or ''
GetNextNonempty(lines, i) ==
    LET later == {j \in (i + 1)..Len(lines) : Strip(lines[j]) # ""}
    IN  IF later = {} THEN "" ELSE Strip(lines[Min(later)])

\* Variant of the triple loop body without "if details.get(field_key): continue"
ScanTripleOverwrites(details, line, next_line, triple) ==
    IF ~Search(triple.label, line, TRUE).ok THEN details
    ELSE IF next_line = "" THEN details
    ELSE LET val_match == MatchAt(triple.value, next_line, 1, TRUE)
         IN  IF val_match.ok
             THEN SetItem(details, triple.field, Strip(Group1(next_line, val_match)))
             ELSE details

\* The body of the loop over the (label, field, value) triples for one triple
ScanTriple(details, line, next_line, triple) ==
    IF Get(details, triple.field) # "" THEN details
    ELSE IF ~Search(triple.label, line, TRUE).ok THEN details
    ELSE IF next_line = "" THEN details
    ELSE LET val_match == MatchAt(triple.value, next_line, 1, TRUE)
         IN  IF val_match.ok
             THEN SetItem(details, triple.field, Strip(Group1(next_line, val_match)))
             ELSE details

RECURSIVE ScanTriples(_, _, _, _)
ScanTriples(details, line, next_line, t) ==
    IF t > Len(_passbook_multiline_labels) THEN details
    ELSE LET next == ScanTriple(details, line, next_line, _passbook_multiline_labels[t])
         IN  IF DOMAIN next = {} THEN next
             ELSE ScanTriples(next, line, next_line, t + 1)

\* r'^\s*(\d{9,18})\s*$' and r'^\s*([A-Z]{4}0[A-Z0-9]{6})\s*$'
standalone_account ==
    Cat(<<Bol, Star(C(Ws)), Grp(Rep(C(Digit), 9, 18)), Star(C(Ws)), Eol>>)
standalone_ifsc ==
    Cat(<<Bol, Star(C(Ws)),
          Grp(Cat(<<Rep(C(UpperAZ), 4, 4), S("0"), Rep(C(UpperAZ \cup Digit), 6, 6)>>)),
          Star(C(Ws)), Eol>>)

\* Standalone account number (a line of 9-18 digits only)
StandaloneAccount(details, line) ==
    IF Get(details, "Account Number") # "" THEN details
    ELSE LET acc_match == MatchAt(standalone_account, line, 1, FALSE)
         IN  IF acc_match.ok
             THEN SetItem(details, "Account Number", Group1(line, acc_match))
             ELSE details

\* Standalone IFSC
StandaloneIfsc(details, line) ==
    IF Get(details, "IFSC Code") # "" THEN details
    ELSE LET ifsc_match == MatchAt(standalone_ifsc, line, 1, FALSE)
         IN  IF ifsc_match.ok /\ Group1(line, ifsc_match) # Get(details, "MICR Code")
             THEN SetItem(details, "IFSC Code", Group1(line, ifsc_match))
             ELSE details

\* The body of "for i, line in enumerate(lines)" for line i (1-based here)
ScanLine(details, lines, i) ==
    IF lines[i] = "" THEN details
    ELSE StandaloneIfsc(
             StandaloneAccount(
                 ScanTriples(details, lines[i], GetNextNonempty(lines, i), 1),
                 lines[i]),
             lines[i])

RECURSIVE ScanFrom(_, _, _)
ScanFrom(details, lines, i) ==
    IF i > Len(lines) THEN details
    ELSE LET next == ScanLine(details, lines, i)
         IN  IF DOMAIN next = {} THEN next ELSE ScanFrom(next, lines, i + 1)

\* _scan_passbook_lines(text, details)
ScanPassbookLines(text, details) == ScanFrom(details, ScanLines(text), 1)

\* Variant of the substitution that removes whitespace only
DepunctuateKeepsDashes(value) ==
    LET all == {Ch(value, i) : i \in 1..Len(value)}
    IN  Filter(value, all \ Ws)

\* re.sub(r'[\s\-]', '', value)
Depunctuate(value) ==
    LET all == {Ch(value, i) : i \in 1..Len(value)}
    IN  Filter(value, all \ (Ws \cup {"-"}))

\* Variant of the table with the full words only
TypeMapFullWordsOnly(acc_type) ==
    CASE acc_type = "SAVINGS" -> "Savings"
      [] acc_type = "CURRENT" -> "Current"
      [] acc_type = "FIXED DEPOSIT" -> "Fixed Deposit"
      [] acc_type = "RECURRING DEPOSIT" -> "Recurring Deposit"
      [] OTHER -> ""

\* type_map
TypeMap(acc_type) ==
    CASE acc_type \in {"SB", "SAVINGS"} -> "Savings"
      [] acc_type \in {"CA", "CURRENT"} -> "Current"
      [] acc_type \in {"FD", "FIXED DEPOSIT"} -> "Fixed Deposit"
      [] acc_type \in {"RD", "RECURRING DEPOSIT"} -> "Recurring Deposit"
      [] OTHER -> ""

CleanAccountNumber(details) ==
    IF details["Account Number"] # ""
    THEN SetItem(details, "Account Number", Depunctuate(details["Account Number"]))
    ELSE details

NormalizeAccountType(details) ==
    LET acc_type == IF details["Account Type"] # ""
                    THEN Upper(details["Account Type"]) ELSE ""
    IN  IF TypeMap(acc_type) # ""
        THEN SetItem(details, "Account Type", TypeMap(acc_type))
        ELSE details

\* Variant of the guard that clears MICR whenever there is an IFSC
IfscMicrGuardClearsAlways(details) ==
    IF details["IFSC Code"] # "" /\ details["MICR Code"] # ""
    THEN SetItem(details, "MICR Code", "")
    ELSE details

\* IFSC should not equal MICR
IfscMicrGuard(details) ==
    IF /\ details["IFSC Code"] # ""
       /\ details["MICR Code"] # ""
       /\ details["IFSC Code"] = details["MICR Code"]
    THEN SetItem(details, "MICR Code", "")
    ELSE details

\* Prevent balance from matching MICR code
BalanceMicrGuard(details) ==
    LET bal == Get(details, "Balance ($)")
    IN  IF /\ bal # ""
           /\ Len(Filter(bal, {Ch(bal, i) : i \in 1..Len(bal)} \ {".", ","})) = 9
           /\ bal = Filter(Get(details, "MICR Code"),
                           {Ch(Get(details, "MICR Code"), i) :
                               i \in 1..Len(Get(details, "MICR Code"))} \ {" "})
        THEN SetItem(details, "Balance ($)", "")
        ELSE details

CleanMobileNumber(details) ==
    IF Get(details, "Mobile Number") # ""
    THEN SetItem(details, "Mobile Number", Depunctuate(details["Mobile Number"]))
    ELSE details

\* The post-processing block of _parse_passbook_details
PostProcess(details) ==
    CleanMobileNumber(BalanceMicrGuard(IfscMicrGuard(
        NormalizeAccountType(CleanAccountNumber(details)))))

\* _parse_passbook_details(text, filename)
ParsePassbook(text, filename) ==
    PostProcess(ScanPassbookLines(text, PassbookInline(text, filename)))

\* parse_details(text, filename, source_type): the records it can return,
\* one for each order in which set(all_ids) can be iterated
ParseDetails(text, filename, source_type) ==
    IF source_type = "passbook" THEN {ParsePassbook(text, filename)}
    ELSE {ParseScreenshot(text, filename, o) : o \in Orders(ToSet(AllIds(text)))}

\* ---------------------------------------------------------------------
\* State
\* ---------------------------------------------------------------------

VARIABLES
    \* _clean_amount called on its own
    raw,            \* the argument
    cleaned,        \* the value returned
    apc,            \* "call" | "done"
    \* _find_match called on its own
    pattern_key,    \* the arguments
    match_text,
    pattern_dict,   \* "patterns" | "passbook_patterns"
    found,          \* the value returned
    mpc,            \* "call" | "done"
    \* parse_details
    text,           \* the arguments
    filename,
    source_type,
    details,        \* the details dict
    pc,             \* "start" | "ids" | "lines" | "scan" | "standalone" | "post" | "done"
    order,          \* the order in which this process iterates set(all_ids)
    ki,             \* position in that iteration
    li,             \* line index of the line loops (1-based)
    ti,             \* index into _passbook_multiline_labels (1-based)
    run,            \* 1: first call, 2: second call on the same arguments
    first,          \* the record the first call returned
    \* extract_all (with source_type above)
    image_paths,        \* the arguments
    progress_callback,  \* "none": None is passed, "fn": a callable
    i,                  \* the loop index (0-based, as enumerate counts)
    epc,                \* "loop" | "try" | "returned"
    all_data,
    seen_hashes,
    summary,
    parsed_of,          \* parse_details of this process, on the texts OCR can return
    hash_of,            \* hash() of this process: the (signature, hash) pairs so far
    log,                \* history: the callback's invocations and each document's outcome
    earlier             \* history: what an earlier call on the same arguments returned

amountVars == <<raw, cleaned, apc>>
matchVars  == <<pattern_key, match_text, pattern_dict, found, mpc>>
parseVars  == <<text, filename, source_type, details, pc, order, ki, li, ti, run, first>>
pipeVars   == <<image_paths, progress_callback, i, epc, all_data, seen_hashes,
                summary, parsed_of, hash_of, log, earlier>>
vars       == <<amountVars, matchVars, parseVars, pipeVars>>

\* Parts of the state a specification does not use
AmountIdle == raw = "" /\ cleaned = "" /\ apc = "idle"
MatchIdle  == /\ pattern_key = "" /\ match_text = "" /\ pattern_dict = ""
              /\ found = "" /\ mpc = "idle"
ParseLocalsIdle ==
    /\ text = "" /\ filename = "" /\ details = <<>>
    /\ pc = "idle" /\ order = <<>> /\ ki = 0 /\ li = 0 /\ ti = 0
    /\ run = 0 /\ first = <<>>
ParseIdle  == ParseLocalsIdle /\ source_type = ""
PipeIdle   == /\ image_paths = <<>> /\ progress_callback = "" /\ i = 0 /\ epc = "idle"
              /\ all_data = <<>> /\ seen_hashes = {} /\ summary = <<>>
              /\ parsed_of = <<>> /\ hash_of = {} /\ log = <<>> /\ earlier = <<>>

\* ---------------------------------------------------------------------
\* _clean_amount on raw matches over a small alphabet
\* ---------------------------------------------------------------------

MaxRawLen == 3

RawAlphabet == {"1", "5", ",", ".", " ", Rupee, "a"}

RECURSIVE StringsUpTo(_, _)
StringsUpTo(alphabet, n) ==
    IF n = 0 THEN {""}
    ELSE LET shorter == StringsUpTo(alphabet, n - 1)
         IN  shorter \cup {str \o c : str \in shorter, c \in alphabet}

\* Raw matches: every short string, and the amounts of the examples
RawAmounts == StringsUpTo(RawAlphabet, MaxRawLen) \cup {"1,500.00", Rupee \o " 1,500.00"}

AmountInit ==
    /\ raw \in RawAmounts /\ cleaned = "" /\ apc = "call"
    /\ MatchIdle /\ ParseIdle /\ PipeIdle

CleanAmountCall ==
    /\ apc = "call"
    /\ cleaned' = CleanAmount(raw)
    /\ apc' = "done"
    /\ UNCHANGED <<raw, matchVars, parseVars, pipeVars>>

AmountNext == CleanAmountCall

SpecAmount == AmountInit /\ [][AmountNext]_vars

\* ---------------------------------------------------------------------
\* _find_match on every rule list of both catalogs
\* ---------------------------------------------------------------------

Catalog(name) == IF name = "patterns" THEN patterns ELSE passbook_patterns

MatchTexts ==
    {"", "Amount: 5 Rs 7", "Total Payable: Rs 500", "12/01/2023 5 Jan 2023",
     "Nominee: ", "Nominee: Sita ", "Branch   ", "Payment Failed",
     "VPA a@ok b@ok", "Balance: 1,234.50\nAvl Bal 99"}

MatchInit ==
    /\ pattern_dict \in {"patterns", "passbook_patterns"}
    /\ pattern_key \in DOMAIN Catalog(pattern_dict)
    /\ match_text \in MatchTexts
    /\ found = "" /\ mpc = "call"
    /\ AmountIdle /\ ParseIdle /\ PipeIdle

FindMatchCall ==
    /\ mpc = "call"
    /\ found' = FindMatch(pattern_key, match_text, Catalog(pattern_dict))
    /\ mpc' = "done"
    /\ UNCHANGED <<pattern_key, match_text, pattern_dict, amountVars, parseVars, pipeVars>>

MatchNext == FindMatchCall

SpecMatch == MatchInit /\ [][MatchNext]_vars

\* ---------------------------------------------------------------------
\* parse_details, step by step, called twice on the same arguments
\* ---------------------------------------------------------------------

\* The text the test script draws and reads back
ScenarioText ==
    "Payment Successful\nPaid to: John Doe\nUPI ID: john.doe@oksbi\n"
    \o "Amount: " \o Rupee \o " 1,500.00\nTxn ID: 123456789012\n"
    \o "Date: 12 Jan 2023\nTime: 10:30 AM"

ScreenshotTexts ==
    {ScenarioText,
     "",
     "UTR 123456789012\nUTR 987654321098",
     "Txn ID: AB12\nGoogle Transaction ID: CICAgx-9",
     "Txn ID: AB12CD34E\nRef No 1234567890",
     "Txn ID: AB12CD34\nUTR 12345678901",
     "Transaction ID: T2301011234567890123X",
     "UTR: 123456789012345678901",
     "To\nJohn\nTo: Bob\nHDFC Bank\nAxis Bank\nFrom: X\nFrom",
     "Paid to\nRs. 20 Failed",
     "Txn ID: AB12CD34E\nUTR 123456789012\nTxn ID: CIC9"}

PassbookTexts ==
    {"",
     "Account Holder: Ravi\nAccount Holder\nMohan",
     "Name\nRavi\n\nName\nMohan\nHolder\nSita",
     "MICR Code\n380002001\nBalance\n1,23,456.00",
     "IFSC: SBIN0001234\nIFSC\nHDFC0000001\nICIC0000002",
     "Bank\n\n123456789\n987654321",
     "Type\nSavings\nMobile\n98765 43210",
     "IFSC\nSBIN0001234\nMICR\n380002001",
     "MICR\n380002001\nBal\n380,002,001",
     "MICR 380002001\nBalance 380002001",
     "Holder\n\n \nSita Devi\nMICR\nnone\nBranch",
     "SB A/c", "ca account", "FD Account", "rd a/c", "savings", "CURRENT ACCOUNT",
     "FIXED deposit", "Recurring Deposit", "FixedDeposit",
     "A/c No\n1234-5678 90\nPhone: 98765-43210",
     "Bal\n1,23,456.00", "Bal\n380002001"}

ParseInputs ==
    ({"screenshot"} \X ScreenshotTexts)
    \cup ({"passbook"} \X PassbookTexts)
    \cup ({"auto", "camera"} \X {"UTR 123456789012\nUTR 987654321098", "Name\nRavi"})
    \cup {<<"passbook", "Txn ID: AB12CD34E\nRef No 1234567890">>,
          <<"screenshot", "Account Holder: Ravi\nAccount Holder\nMohan">>}

FileNames == {"img.png"}

\* The orders in which a process can iterate set(all_ids) for the text
TokenOrders(t, st) ==
    IF st = "passbook" THEN {<<>>} ELSE Orders(ToSet(AllIds(t)))

ParseInit ==
    /\ \E input \in ParseInputs : source_type = input[1] /\ text = input[2]
    /\ filename \in FileNames
    /\ order \in TokenOrders(text, source_type)
    /\ details = <<>> /\ pc = "start"
    /\ ki = 0 /\ li = 0 /\ ti = 0
    /\ run = 1 /\ first = <<>>
    /\ AmountIdle /\ MatchIdle /\ PipeIdle

\* Where the screenshot path goes after the loop over the tokens
AfterIds == IF Len(NonBlankLines(text)) > 0 THEN "lines" ELSE "done"

\* Entry of parse_details: the dict literal and the single-line rules
ParseStart ==
    /\ pc = "start"
    /\ IF source_type = "passbook"
       THEN /\ details' = PassbookInline(text, filename)
            /\ pc' = "scan"
            /\ ki' = 0 /\ li' = 1 /\ ti' = 1
       ELSE /\ details' = ScreenshotInline(text, filename)
            /\ pc' = IF Len(order) > 0 THEN "ids" ELSE AfterIds
            /\ ki' = 1 /\ li' = 1 /\ ti' = 0
    /\ UNCHANGED <<text, filename, source_type, order, run, first, amountVars, matchVars, pipeVars>>

\* One iteration of "for txn in set(all_ids)"
ClassifyStep ==
    /\ pc = "ids"
    /\ details' = ClassifyTxn(details, order[ki])
    /\ IF ki < Len(order)
       THEN ki' = ki + 1 /\ pc' = pc
       ELSE ki' = ki /\ pc' = AfterIds
    /\ UNCHANGED <<text, filename, source_type, order, li, ti, run, first,
                   amountVars, matchVars, pipeVars>>

\* One iteration of the heuristic "for i, line in enumerate(lines)"
HeuristicStep ==
    /\ pc = "lines"
    /\ details' = HeuristicLine(details, NonBlankLines(text), li)
    /\ IF li < Len(NonBlankLines(text))
       THEN li' = li + 1 /\ pc' = pc
       ELSE li' = li /\ pc' = "done"
    /\ UNCHANGED <<text, filename, source_type, order, ki, ti, run, first,
                   amountVars, matchVars, pipeVars>>

\* Where the scanner goes after line li
AfterLine ==
    IF li < Len(ScanLines(text))
    THEN li' = li + 1 /\ ti' = 1 /\ pc' = "scan"
    ELSE li' = li /\ ti' = ti /\ pc' = "post"

\* "if not line: continue"
ScanBlankLine ==
    /\ pc = "scan"
    /\ ScanLines(text)[li] = ""
    /\ AfterLine
    /\ UNCHANGED <<text, filename, source_type, details, order, ki, run, first,
                   amountVars, matchVars, pipeVars>>

\* One iteration of the loop over the label triples for line li
ScanTripleStep ==
    /\ pc = "scan"
    /\ ScanLines(text)[li] # ""
    /\ details' = ScanTriple(details, ScanLines(text)[li],
                             GetNextNonempty(ScanLines(text), li),
                             _passbook_multiline_labels[ti])
    /\ IF ti < Len(_passbook_multiline_labels)
       THEN ti' = ti + 1 /\ pc' = pc
       ELSE ti' = ti /\ pc' = "standalone"
    /\ UNCHANGED <<text, filename, source_type, order, ki, li, run, first,
                   amountVars, matchVars, pipeVars>>

\* The standalone account-number and IFSC recognizers for line li
StandaloneStep ==
    /\ pc = "standalone"
    /\ details' = StandaloneIfsc(StandaloneAccount(details, ScanLines(text)[li]),
                                 ScanLines(text)[li])
    /\ AfterLine
    /\ UNCHANGED <<text, filename, source_type, order, ki, run, first,
                   amountVars, matchVars, pipeVars>>

\* Pass 3 of _parse_passbook_details and its return
PostProcessStep ==
    /\ pc = "post"
    /\ details' = PostProcess(details)
    /\ pc' = "done"
    /\ UNCHANGED <<text, filename, source_type, order, ki, li, ti, run, first,
                   amountVars, matchVars, pipeVars>>

\* The caller keeps the record and calls parse_details again with the same
\* arguments, in the same interpreter process
ParseAgain ==
    /\ pc = "done" /\ run = 1
    /\ first' = details
    /\ run' = 2
    /\ details' = <<>> /\ pc' = "start"
    /\ ki' = 0 /\ li' = 0 /\ ti' = 0
    /\ UNCHANGED <<text, filename, source_type, order, amountVars, matchVars, pipeVars>>

\* The same, the second call made in another interpreter process, whose
\* string hashes, and with them the iteration order of a set of strings,
\* are its own
ParseAgainElsewhere ==
    /\ pc = "done" /\ run = 1
    /\ first' = details
    /\ run' = 2
    /\ details' = <<>> /\ pc' = "start"
    /\ ki' = 0 /\ li' = 0 /\ ti' = 0
    /\ order' \in TokenOrders(text, source_type)
    /\ UNCHANGED <<text, filename, source_type, amountVars, matchVars, pipeVars>>

ParseNext ==
    \/ ParseStart
    \/ ClassifyStep
    \/ HeuristicStep
    \/ ScanBlankLine
    \/ ScanTripleStep
    \/ StandaloneStep
    \/ PostProcessStep
    \/ ParseAgain
    \/ ParseAgainElsewhere

SpecParse == ParseInit /\ [][ParseNext]_vars

\* ---------------------------------------------------------------------
\* extract_all: one batch over a list of image paths
\* ---------------------------------------------------------------------

MaxDocs == 3

\* hash() has HashSpace values here, so that two signatures can share one
HashSpace == 2

\* The k-th path of the batch; the first and the third name the same file
PathAt(k) == IF k % 2 = 1 THEN "in/a.png" ELSE "b.png"

\* What the OCR engine can return
OcrTexts == {"", "UTR: 123456789012 ", "Ref No 123456789012"}

\* The source types a batch is run with
BatchSourceTypes == {"auto", "passbook"}

\* What parse_details can be in one process on the texts the OCR engine can
\* return: a function of the text (a process iterates a given set in one
\* order); the file name, which only ends up in 'File Name', left open
Choices(sets) ==
    {f \in [DOMAIN sets -> UNION {sets[t] : t \in DOMAIN sets}] :
        \A t \in DOMAIN sets : f[t] \in sets[t]}

ParseFunctions(st) == Choices([t \in OcrTexts |-> ParseDetails(t, "", st)])

\* self.parse_details(raw_text, filename, source_type=source_type)
ParseResult(raw_text, file_name) ==
    [parsed_of[raw_text] EXCEPT !["File Name"] = file_name]

\* str(e) of what the OCR engine and the parser can raise
OcrErrors   == {"cannot identify image file"}
ParseErrors == {"expected string or bytes-like object"}

\* The marks the messages start with, and the dash of the error message
SkipMark  == "[>>]"
ErrorMark == "[x]"
Dash      == "--"

\* os.path.basename(img_path)
Basename(path) ==
    LET slashes == {j \in 1..Len(path) : Ch(path, j) = "/"}
    IN  IF slashes = {} THEN path ELSE SubSeq(path, Max(slashes) + 1, Len(path))

\* total and filename of extract_all
Total    == Len(image_paths)
Filename == Basename(image_paths[i + 1])

\* Variant of the notification that reports the 0-based loop index
NotifyLoopIndex(lg, current, total, message) ==
    IF progress_callback = "none" THEN lg
    ELSE Append(lg, [kind |-> "callback", current |-> current - 1, total |-> total,
                     message |-> message])

\* if progress_callback: progress_callback(current, total, message)
Notify(lg, current, total, message) ==
    IF progress_callback = "none" THEN lg
    ELSE Append(lg, [kind |-> "callback", current |-> current, total |-> total,
                     message |-> message])

\* History: document doc (1-based) has been dealt with; kind is "retained",
\* "duplicate" or "failed", parsed is its parsed_data (<<>> when it failed)
Outcome(lg, doc, kind, parsed) ==
    Append(lg, [kind |-> kind, doc |-> doc, parsed |-> parsed])

\* key_fields, as the frozenset of its items
KeyFields(parsed_data) ==
    {<<k, parsed_data[k]>> :
        k \in {x \in DOMAIN parsed_data :
                  x \notin {"File Name", "All Extracted Text"} /\ parsed_data[x] # ""}}

\* hash(frozenset(...)): the value this process gave the signature before,
\* any value for a signature it has not hashed yet
Hashes(signature) ==
    LET known == {h \in hash_of : h[1] = signature}
    IN  IF known = {} THEN 0..(HashSpace - 1) ELSE {h[2] : h \in known}

ExtractInit ==
    /\ \E n \in 0..MaxDocs : image_paths = [k \in 1..n |-> PathAt(k)]
    /\ progress_callback \in {"none", "fn"}
    /\ source_type \in BatchSourceTypes
    /\ i = 0 /\ epc = "loop"
    /\ all_data = <<>>
    /\ seen_hashes = {}
    /\ summary = [success |-> 0, failed |-> 0, duplicates |-> 0, errors |-> <<>>]
    /\ parsed_of \in ParseFunctions(source_type)
    /\ hash_of = {}
    /\ log = <<>>
    /\ earlier = <<>>
    /\ AmountIdle /\ MatchIdle /\ ParseLocalsIdle

\* Top of the loop body: filename and the "Processing" notification
BeginDocument ==
    /\ epc = "loop" /\ i < Total
    /\ log' = Notify(log, i + 1, Total, "Processing " \o Filename \o "...")
    /\ epc' = "try"
    /\ UNCHANGED <<image_paths, progress_callback, source_type, i, all_data,
                   seen_hashes, summary, parsed_of, hash_of, earlier>>
    /\ UNCHANGED <<amountVars, matchVars, text, filename, details, pc, order, ki, li,
                   ti, run, first>>

\* What the try block leaves alone, whichever way it ends
TryFrame ==
    /\ UNCHANGED <<image_paths, progress_callback, source_type, parsed_of, earlier>>
    /\ UNCHANGED <<amountVars, matchVars, text, filename, details, pc, order, ki, li,
                   ti, run, first>>

\* Variant of the try block that puts the record at the head of the list
RetainRecordInFront ==
    /\ epc = "try"
    /\ \E raw_text \in OcrTexts :
       \E data_hash \in Hashes(KeyFields(ParseResult(raw_text, Filename))) :
          LET parsed_data == ParseResult(raw_text, Filename) IN
          /\ data_hash \notin seen_hashes
          /\ hash_of' = hash_of \cup {<<KeyFields(parsed_data), data_hash>>}
          /\ seen_hashes' = seen_hashes \cup {data_hash}
          /\ all_data' = <<parsed_data>> \o all_data
          /\ summary' = [summary EXCEPT !.success = @ + 1]
          /\ log' = Outcome(log, i + 1, "retained", parsed_data)
    /\ i' = i + 1 /\ epc' = "loop"
    /\ TryFrame

\* The try block, OCR and parsing returning, the hash not seen before
RetainRecord ==
    /\ epc = "try"
    /\ \E raw_text \in OcrTexts :
       \E data_hash \in Hashes(KeyFields(ParseResult(raw_text, Filename))) :
          LET parsed_data == ParseResult(raw_text, Filename) IN
          /\ data_hash \notin seen_hashes
          /\ hash_of' = hash_of \cup {<<KeyFields(parsed_data), data_hash>>}
          /\ seen_hashes' = seen_hashes \cup {data_hash}
          /\ all_data' = Append(all_data, parsed_data)
          /\ summary' = [summary EXCEPT !.success = @ + 1]
          /\ log' = Outcome(log, i + 1, "retained", parsed_data)
    /\ i' = i + 1 /\ epc' = "loop"
    /\ TryFrame

\* The try block, OCR and parsing returning, the hash seen before
SkipDuplicate ==
    /\ epc = "try"
    /\ \E raw_text \in OcrTexts :
       \E data_hash \in Hashes(KeyFields(ParseResult(raw_text, Filename))) :
          LET parsed_data == ParseResult(raw_text, Filename) IN
          /\ data_hash \in seen_hashes
          /\ hash_of' = hash_of \cup {<<KeyFields(parsed_data), data_hash>>}
          /\ summary' = [summary EXCEPT !.duplicates = @ + 1]
          /\ log' = Notify(Outcome(log, i + 1, "duplicate", parsed_data),
                           i + 1, Total, SkipMark \o " Skipped duplicate: " \o Filename)
    /\ i' = i + 1 /\ epc' = "loop"
    /\ UNCHANGED <<all_data, seen_hashes>>
    /\ TryFrame

\* Variant of the except block that gives up the rest of the batch
ExceptHandlerStopsBatch(message) ==
    /\ summary' = [summary EXCEPT !.failed = @ + 1,
                                  !.errors = Append(@, <<Filename, message>>)]
    /\ all_data' = Append(all_data, ("File Name" :> Filename) @@ ("Error" :> message))
    /\ log' = Notify(Outcome(log, i + 1, "failed", <<>>), i + 1, Total,
                     ErrorMark \o " Error: " \o Filename \o " " \o Dash \o " " \o message)
    /\ i' = Total /\ epc' = "loop"
    /\ UNCHANGED <<seen_hashes, hash_of>>

\* Variant of the except block that counts the failure and keeps no record
ExceptHandlerDropsRecord(message) ==
    /\ summary' = [summary EXCEPT !.failed = @ + 1,
                                  !.errors = Append(@, <<Filename, message>>)]
    /\ all_data' = all_data
    /\ log' = Notify(Outcome(log, i + 1, "failed", <<>>), i + 1, Total,
                     ErrorMark \o " Error: " \o Filename \o " " \o Dash \o " " \o message)
    /\ i' = i + 1 /\ epc' = "loop"
    /\ UNCHANGED <<seen_hashes, hash_of>>

\* Variant of the except block that also passes over the next document
ExceptHandlerSkipsNext(message) ==
    /\ summary' = [summary EXCEPT !.failed = @ + 1,
                                  !.errors = Append(@, <<Filename, message>>)]
    /\ all_data' = Append(all_data, ("File Name" :> Filename) @@ ("Error" :> message))
    /\ log' = Notify(Outcome(log, i + 1, "failed", <<>>), i + 1, Total,
                     ErrorMark \o " Error: " \o Filename \o " " \o Dash \o " " \o message)
    /\ i' = i + 2 /\ epc' = "loop"
    /\ UNCHANGED <<seen_hashes, hash_of>>

\* Variant of the except block that enters the hash of a record without
\* fields in the set of seen hashes
ExceptHandlerMarksSeen(message) ==
    /\ summary' = [summary EXCEPT !.failed = @ + 1,
                                  !.errors = Append(@, <<Filename, message>>)]
    /\ all_data' = Append(all_data, ("File Name" :> Filename) @@ ("Error" :> message))
    /\ log' = Notify(Outcome(log, i + 1, "failed", <<>>), i + 1, Total,
                     ErrorMark \o " Error: " \o Filename \o " " \o Dash \o " " \o message)
    /\ i' = i + 1 /\ epc' = "loop"
    /\ \E data_hash \in Hashes({}) :
          /\ seen_hashes' = seen_hashes \cup {data_hash}
          /\ hash_of' = hash_of \cup {<<{}, data_hash>>}

\* The except block for an exception e with str(e) = message
ExceptHandler(message) ==
    /\ summary' = [summary EXCEPT !.failed = @ + 1,
                                  !.errors = Append(@, <<Filename, message>>)]
    /\ all_data' = Append(all_data, ("File Name" :> Filename) @@ ("Error" :> message))
    /\ log' = Notify(Outcome(log, i + 1, "failed", <<>>), i + 1, Total,
                     ErrorMark \o " Error: " \o Filename \o " " \o Dash \o " " \o message)
    /\ i' = i + 1 /\ epc' = "loop"
    /\ UNCHANGED <<seen_hashes, hash_of>>

\* self.ocr.extract_text raises
OcrRaises ==
    /\ epc = "try"
    /\ \E message \in OcrErrors : ExceptHandler(message)
    /\ TryFrame

\* self.parse_details raises
ParseRaises ==
    /\ epc = "try"
    /\ \E message \in ParseErrors : ExceptHandler(message)
    /\ TryFrame

\* return all_data, summary
Return ==
    /\ epc = "loop" /\ i = Total
    /\ epc' = "returned"
    /\ UNCHANGED <<image_paths, progress_callback, source_type, i, all_data,
                   seen_hashes, summary, parsed_of, hash_of, log, earlier>>
    /\ UNCHANGED <<amountVars, matchVars, text, filename, details, pc, order, ki, li,
                   ti, run, first>>

Next ==
    \/ BeginDocument
    \/ RetainRecord
    \/ SkipDuplicate
    \/ OcrRaises
    \/ ParseRaises
    \/ Return

Init == ExtractInit

Spec == Init /\ [][Next]_vars

\* extract_all as it runs: the interpreter goes on taking the steps of the
\* call, and the OCR engine and the parser return or raise on every call
FairSpec == Spec /\ WF_vars(Next)

\* ---------------------------------------------------------------------
\* extract_all called a second time on the same extractor with the same
\* arguments, the OCR engine and the parser doing on each document what
\* they did in the first call
\* ---------------------------------------------------------------------

\* The outcome of document k in the earlier call, and the message of its
\* exception when it failed
EarlierOutcomes ==
    {earlier.log[q] : q \in {r \in 1..Len(earlier.log) : earlier.log[r].kind # "callback"}}
EarlierOutcome(k) == CHOOSE e \in EarlierOutcomes : e.doc = k
EarlierMessage(k) ==
    earlier.summary.errors[
        Cardinality({e \in EarlierOutcomes : e.kind = "failed" /\ e.doc <= k})][2]

\* The outcome the step records in the history
NewOutcome ==
    CHOOSE e \in {log'[q] : q \in (Len(log) + 1)..Len(log')} : e.kind # "callback"

\* In a second call the OCR engine and the parser return or raise on the
\* document what they returned or raised on it in the first
AsBefore ==
    \/ earlier = <<>>
    \/ /\ (NewOutcome.kind = "failed") <=> (EarlierOutcome(i + 1).kind = "failed")
       /\ NewOutcome.kind = "failed" =>
             summary'.errors[Len(summary'.errors)][2] = EarlierMessage(i + 1)
       /\ NewOutcome.kind # "failed" => NewOutcome.parsed = EarlierOutcome(i + 1).parsed

\* Variant of the second call in which the set of seen hashes outlives the
\* first
CallAgainKeepsSeen ==
    /\ epc = "returned" /\ earlier = <<>>
    /\ earlier' = [all_data |-> all_data, summary |-> summary, log |-> log]
    /\ all_data' = <<>>
    /\ seen_hashes' = seen_hashes
    /\ summary' = [success |-> 0, failed |-> 0, duplicates |-> 0, errors |-> <<>>]
    /\ i' = 0 /\ epc' = "loop"
    /\ log' = <<>>
    /\ UNCHANGED <<image_paths, progress_callback, source_type, parsed_of, hash_of>>
    /\ UNCHANGED <<amountVars, matchVars, text, filename, details, pc, order, ki, li,
                   ti, run, first>>

\* The caller keeps what the call returned and calls extract_all again, in
\* the same process: all_data, seen_hashes and summary are created anew
CallAgain ==
    /\ epc = "returned" /\ earlier = <<>>
    /\ earlier' = [all_data |-> all_data, summary |-> summary, log |-> log]
    /\ all_data' = <<>>
    /\ seen_hashes' = {}
    /\ summary' = [success |-> 0, failed |-> 0, duplicates |-> 0, errors |-> <<>>]
    /\ i' = 0 /\ epc' = "loop"
    /\ log' = <<>>
    /\ UNCHANGED <<image_paths, progress_callback, source_type, parsed_of, hash_of>>
    /\ UNCHANGED <<amountVars, matchVars, text, filename, details, pc, order, ki, li,
                   ti, run, first>>

NextTwice ==
    \/ BeginDocument
    \/ RetainRecord /\ AsBefore
    \/ SkipDuplicate /\ AsBefore
    \/ OcrRaises /\ AsBefore
    \/ ParseRaises /\ AsBefore
    \/ Return
    \/ CallAgain

SpecTwice == Init /\ [][NextTwice]_vars

\* ---------------------------------------------------------------------
\* extract_all with a progress callback that can raise
\* ---------------------------------------------------------------------

\* str(e) of what the progress callback can raise
CallbackErrors == {"callback failed"}

\* The "Processing" call of the callback raises: it stands before the try
\* block, and the exception leaves extract_all
ProcessingCallbackRaises ==
    /\ epc = "loop" /\ i < Total
    /\ progress_callback # "none"
    /\ epc' = "raised"
    /\ UNCHANGED <<image_paths, progress_callback, source_type, i, all_data,
                   seen_hashes, summary, parsed_of, hash_of, log, earlier>>
    /\ UNCHANGED <<amountVars, matchVars, text, filename, details, pc, order, ki, li,
                   ti, run, first>>

\* The hash has been seen before and the "Skipped duplicate" call of the
\* callback raises: 'duplicates' has been incremented, the call stands in
\* the try block, and the except block deals with the exception, its own
\* call of the callback returning
SkipCallbackRaises ==
    /\ epc = "try"
    /\ progress_callback # "none"
    /\ \E raw_text \in OcrTexts :
       \E data_hash \in Hashes(KeyFields(ParseResult(raw_text, Filename))) :
       \E message \in CallbackErrors :
          LET parsed_data == ParseResult(raw_text, Filename) IN
          /\ data_hash \in seen_hashes
          /\ hash_of' = hash_of \cup {<<KeyFields(parsed_data), data_hash>>}
          /\ summary' = [summary EXCEPT !.duplicates = @ + 1,
                                        !.failed = @ + 1,
                                        !.errors = Append(@, <<Filename, message>>)]
          /\ all_data' = Append(all_data,
                                ("File Name" :> Filename) @@ ("Error" :> message))
          /\ log' = Notify(Notify(Outcome(log, i + 1, "duplicate", parsed_data),
                                  i + 1, Total,
                                  SkipMark \o " Skipped duplicate: " \o Filename),
                           i + 1, Total,
                           ErrorMark \o " Error: " \o Filename \o " " \o Dash \o " "
                               \o message)
    /\ i' = i + 1 /\ epc' = "loop"
    /\ UNCHANGED seen_hashes
    /\ TryFrame

\* OCR or parsing raises and the "Error" call of the callback raises in
\* the except block: the failure has been recorded, and the exception
\* leaves extract_all
ErrorCallbackRaises ==
    /\ epc = "try"
    /\ progress_callback # "none"
    /\ \E message \in OcrErrors \cup ParseErrors :
          /\ summary' = [summary EXCEPT !.failed = @ + 1,
                                        !.errors = Append(@, <<Filename, message>>)]
          /\ all_data' = Append(all_data,
                                ("File Name" :> Filename) @@ ("Error" :> message))
          /\ log' = Notify(Outcome(log, i + 1, "failed", <<>>), i + 1, Total,
                           ErrorMark \o " Error: " \o Filename \o " " \o Dash \o " "
                               \o message)
    /\ epc' = "raised"
    /\ UNCHANGED <<i, seen_hashes, hash_of>>
    /\ TryFrame

NextWithRaisingCallback ==
    \/ BeginDocument
    \/ RetainRecord
    \/ SkipDuplicate
    \/ OcrRaises
    \/ ParseRaises
    \/ Return
    \/ ProcessingCallbackRaises
    \/ SkipCallbackRaises
    \/ ErrorCallbackRaises

SpecRaisingCallback == Init /\ [][NextWithRaisingCallback]_vars

\* ---------------------------------------------------------------------
\* Properties of extract_all (Spec)
\* ---------------------------------------------------------------------

\* Where the history holds the outcome of document k, and the outcome
OutcomeAt(k) ==
    CHOOSE q \in 1..Len(log) : log[q].kind # "callback" /\ log[q].doc = k
OutcomeOf(k) == log[OutcomeAt(k)]

\* The documents dealt with have one outcome each
EachProcessedOnce ==
    \A k \in 1..i :
        Cardinality({q \in 1..Len(log) : log[q].kind # "callback" /\ log[q].doc = k}) = 1

\* A step in which OCR or parsing raises: failed grows by one, one
\* (filename, message) pair and one record with the keys 'File Name' and
\* 'Error' are appended, and the loop goes on with the next document
RaiseStepIsIsolated ==
    (OcrRaises \/ ParseRaises) =>
        /\ summary'.failed = summary.failed + 1
        /\ Len(all_data') = Len(all_data) + 1
        /\ SubSeq(all_data', 1, Len(all_data)) = all_data
        /\ DOMAIN all_data'[Len(all_data')] = {"File Name", "Error"}
        /\ all_data'[Len(all_data')]["File Name"] = Filename
        /\ summary'.errors =
              Append(summary.errors, <<Filename, all_data'[Len(all_data')]["Error"]>>)
        /\ all_data'[Len(all_data')]["Error"] \in OcrErrors \cup ParseErrors
        /\ i' = i + 1 /\ epc' = "loop"

\* C1: when OCR or parsing of a document raises, the exception is caught,
\* 'failed' grows by exactly one, one (filename, message) pair is appended
\* to summary['errors'], one record with only the keys 'File Name' and
\* 'Error' is appended to the result list, and extract_all returns only
\* after every document of the list has been processed.
ErrorIsolation ==
    /\ [][RaiseStepIsIsolated]_vars
    /\ [](epc = "returned" => (i = Total /\ EachProcessedOnce))

\* The first of three documents failed and the two after it were parsed
LaterDocumentsProcessedAfterFailure ==
    /\ epc = "returned"
    /\ Total = 3
    /\ OutcomeOf(1).kind = "failed"
    /\ OutcomeOf(2).kind = "retained"
    /\ OutcomeOf(3).kind # "failed"
    /\ summary.failed = 1
    /\ Len(summary.errors) = 1
    /\ DOMAIN all_data[1] = {"File Name", "Error"}

\* The documents that were parsed, the signature of one, and the first
\* document of the run with the same signature
ParsedDocuments == {k \in 1..i : OutcomeOf(k).kind # "failed"}
SignatureOf(k) == KeyFields(OutcomeOf(k).parsed)
FirstWithSignatureOf(k) ==
    Min({j \in ParsedDocuments : SignatureOf(j) = SignatureOf(k)})

\* The records of the result list that are no error records
RetainedRecords == SelectSeq(all_data, LAMBDA r : "Error" \notin DOMAIN r)
IsRetained(e) == e.kind = "retained"

\* C2: when two documents of a run produce records with the same non-empty
\* field values (ignoring 'File Name' and 'All Extracted Text'), the
\* earlier one, the first of the run with these values, is retained in the
\* result list and the later one is left out and counted in 'duplicates'
\* once.
DuplicatesCollapseToEarliest ==
    epc = "returned" =>
        /\ \A j, k \in ParsedDocuments :
              (j < k /\ FirstWithSignatureOf(k) = j) =>
                  (OutcomeOf(j).kind = "retained" /\ OutcomeOf(k).kind = "duplicate")
        /\ summary.duplicates =
              Cardinality({k \in ParsedDocuments : OutcomeOf(k).kind = "duplicate"})
        /\ Len(RetainedRecords) =
              Cardinality({k \in ParsedDocuments : OutcomeOf(k).kind = "retained"})
        /\ \A q \in 1..Len(RetainedRecords) :
              RetainedRecords[q] = SelectSeq(log, IsRetained)[q].parsed

\* The invocations of the callback for document k
CallsFor(k) ==
    {q \in 1..Len(log) :
        log[q].kind = "callback" /\ log[q].current = k /\ log[q].total = Total}

\* C10 as stated: for every document, whatever its outcome, the callback is
\* invoked with (1-based index, total, message) after the document has been
\* processed.
ProgressAfterEveryDocument ==
    progress_callback # "none" =>
        \A k \in 1..i : \E q \in CallsFor(k) : q > OutcomeAt(k)

\* C10 (amended): for every document the callback is invoked with (1-based
\* index, total, 'Processing <filename>...') before the document is
\* processed; it is invoked again after the document has been processed
\* exactly when the document was skipped as a duplicate or failed.
ProgressBeforeEveryDocument ==
    progress_callback # "none" =>
        \A k \in 1..i :
            /\ \E q \in CallsFor(k) :
                  /\ q < OutcomeAt(k)
                  /\ log[q].message = "Processing " \o Basename(image_paths[k]) \o "..."
            /\ (\E q \in CallsFor(k) : q > OutcomeAt(k))
                  <=> OutcomeOf(k).kind \in {"duplicate", "failed"}

\* A batch with a callback has returned after a retained, a skipped and a
\* failed document
AllOutcomesReported ==
    /\ epc = "returned"
    /\ progress_callback = "fn"
    /\ Total = 3
    /\ {OutcomeOf(k).kind : k \in 1..3} = {"retained", "duplicate", "failed"}
    /\ Cardinality({q \in 1..Len(log) : log[q].kind = "callback"}) = 5

\* The documents that failed, how many of them there are up to document k,
\* and the error records of the result list
FailedDocuments == {k \in 1..i : OutcomeOf(k).kind = "failed"}
FailedUpTo(k) == Cardinality({j \in FailedDocuments : j <= k})
HasError(r) == "Error" \in DOMAIN r
ErrorRecords == SelectSeq(all_data, HasError)

\* C11: when extract_all returns, the result list has at least as many
\* records as there are input documents less the 'duplicates' counter, and
\* every failed document has its placeholder record, with its file name and
\* the message of its exception, in the result list.
NoSilentDrops ==
    epc = "returned" =>
        /\ Len(all_data) >= Total - summary.duplicates
        /\ Len(ErrorRecords) = Cardinality(FailedDocuments)
        /\ Len(summary.errors) = Cardinality(FailedDocuments)
        /\ \A k \in FailedDocuments :
              /\ ErrorRecords[FailedUpTo(k)]["File Name"] = Basename(image_paths[k])
              /\ ErrorRecords[FailedUpTo(k)]["Error"] = summary.errors[FailedUpTo(k)][2]
              /\ summary.errors[FailedUpTo(k)][1] = Basename(image_paths[k])
              /\ summary.errors[FailedUpTo(k)][2] \in OcrErrors \cup ParseErrors

\* A batch of three has returned two records: a retained one, the
\* placeholder of a failed document, and nothing for a duplicate
PlaceholderKeptDuplicateDropped ==
    /\ epc = "returned"
    /\ Total = 3
    /\ OutcomeOf(1).kind = "retained"
    /\ OutcomeOf(2).kind = "failed"
    /\ OutcomeOf(3).kind = "duplicate"
    /\ Len(all_data) = 2
    /\ all_data[2]["Error"] \in OcrErrors

\* The outcomes of the history, in the order the documents were dealt with
IsOutcome(e) == e.kind # "callback"
OutcomeEntries == SelectSeq(log, IsOutcome)
VisitedInOrder == \A q \in 1..Len(OutcomeEntries) : OutcomeEntries[q].doc = q

\* C13: for every list of paths, and whether the OCR engine and the parser
\* return or raise on each document, extract_all visits the documents once
\* each in input order and ends by returning (all_data, summary).
ExtractAllTerminates ==
    /\ [](VisitedInOrder /\ Len(OutcomeEntries) = i)
    /\ <>[](epc = "returned" /\ Len(OutcomeEntries) = Total)

\* A batch has returned after OCR raised on one document and the parser on
\* the next
ReturnedAfterBothCollaboratorsRaised ==
    /\ epc = "returned"
    /\ Total = 3
    /\ Len(summary.errors) = 2
    /\ summary.errors[1][2] \in OcrErrors
    /\ summary.errors[2][2] \in ParseErrors
    /\ OutcomeOf(3).kind = "retained"

\* The keys parse_details declares for the source type of the run
DeclaredKeys == IF source_type = "passbook" THEN PassbookKeys ELSE ScreenshotKeys

\* C14 as stated: every record of the list one extract_all run returns has
\* the same set of keys.
AllRecordsShareKeys ==
    epc = "returned" =>
        \A a, b \in 1..Len(all_data) : DOMAIN all_data[a] = DOMAIN all_data[b]

\* C14 (amended): in the list one extract_all run returns, every record of
\* a parsed document has the key set declared for the source type of the
\* run, and every other record is the placeholder of a failed document,
\* with the keys 'File Name' and 'Error' only; the records of a run share
\* one key set exactly when none or all of them are placeholders.
ParsedRecordsShareKeys ==
    epc = "returned" =>
        /\ \A a \in 1..Len(all_data) :
              IF HasError(all_data[a])
              THEN DOMAIN all_data[a] = {"File Name", "Error"}
              ELSE DOMAIN all_data[a] = DeclaredKeys
        /\ Len(ErrorRecords) = Cardinality(FailedDocuments)
        /\ Len(RetainedRecords) = summary.success
        /\ (\A a, b \in 1..Len(all_data) : DOMAIN all_data[a] = DOMAIN all_data[b])
              <=> (Len(ErrorRecords) = 0 \/ Len(RetainedRecords) = 0)

\* A run has returned two parsed records around one placeholder
PlaceholderAmongParsedRecords ==
    /\ epc = "returned"
    /\ Len(all_data) = 3
    /\ ~HasError(all_data[1])
    /\ HasError(all_data[2])
    /\ ~HasError(all_data[3])
    /\ all_data[1]["All Extracted Text"] # all_data[3]["All Extracted Text"]

\* The documents that were parsed from text that is empty once stripped
EmptyTextDocuments ==
    {k \in ParsedDocuments : OutcomeOf(k).parsed["All Extracted Text"] = ""}

\* C12: a document whose OCR text is the empty string is parsed, in either
\* mode, into a record with the declared keys in which every field except
\* 'File Name' is empty, and it is no failure: 'failed' and
\* summary['errors'] count the documents on which OCR or parsing raised
\* and nothing else.
EmptyTextIsNoError ==
    /\ \A k \in EmptyTextDocuments :
          /\ DOMAIN OutcomeOf(k).parsed =
                (IF source_type = "passbook" THEN PassbookKeys ELSE ScreenshotKeys)
          /\ OutcomeOf(k).parsed["File Name"] = Basename(image_paths[k])
          /\ \A key \in DOMAIN OutcomeOf(k).parsed \ {"File Name"} :
                OutcomeOf(k).parsed[key] = ""
          /\ OutcomeOf(k).kind \in {"retained", "duplicate"}
    /\ summary.failed = Cardinality(FailedDocuments)
    /\ Len(summary.errors) = Cardinality(FailedDocuments)

\* A batch of two empty texts has returned without a failure
EmptyTextsParsedWithoutFailure ==
    /\ epc = "returned"
    /\ Total = 2
    /\ EmptyTextDocuments = {1, 2}
    /\ OutcomeOf(1).kind = "retained"
    /\ OutcomeOf(2).kind = "duplicate"
    /\ summary.failed = 0 /\ summary.errors = <<>>

\* The documents that have a record in the result list, and the q-th of
\* them and of the failed ones in input order
KeptDocuments == {k \in 1..i : OutcomeOf(k).kind # "duplicate"}
NthOf(docs, q) == CHOOSE k \in docs : Cardinality({j \in docs : j <= k}) = q

\* C23: the records extract_all returns stand in the input order of their
\* documents, retained records and placeholders interleaved: the q-th
\* record is the record of the q-th document that is no duplicate; the
\* pairs of summary['errors'] stand in the input order of the failed
\* documents, the q-th pair being that of the q-th placeholder.
RecordsInInputOrder ==
    epc = "returned" =>
        /\ Len(all_data) = Cardinality(KeptDocuments)
        /\ \A q \in 1..Len(all_data) :
              LET k == NthOf(KeptDocuments, q) IN
              /\ all_data[q]["File Name"] = Basename(image_paths[k])
              /\ HasError(all_data[q]) <=> k \in FailedDocuments
              /\ ~HasError(all_data[q]) => all_data[q] = OutcomeOf(k).parsed
        /\ Len(summary.errors) = Cardinality(FailedDocuments)
        /\ \A q \in 1..Len(summary.errors) :
              /\ summary.errors[q][1] = Basename(image_paths[NthOf(FailedDocuments, q)])
              /\ summary.errors[q] =
                    <<ErrorRecords[q]["File Name"], ErrorRecords[q]["Error"]>>

\* A run has returned a placeholder between two retained records, the
\* three documents differing in file name or text
InterleavedRecordsReturned ==
    /\ epc = "returned"
    /\ Len(all_data) = 3
    /\ ~HasError(all_data[1]) /\ HasError(all_data[2]) /\ ~HasError(all_data[3])
    /\ all_data[1]["All Extracted Text"] # all_data[3]["All Extracted Text"]

\* C24: when extract_all returns, success + failed + duplicates is the
\* number of input documents, the result list has success + failed
\* records and summary['errors'] has 'failed' pairs, whatever the OCR
\* engine, the parser and the progress callback do, a callback raising on
\* a skipped duplicate included.
CountersAccountForDocuments ==
    epc = "returned" =>
        /\ summary.success + summary.failed + summary.duplicates = Total
        /\ Len(all_data) = summary.success + summary.failed
        /\ Len(summary.errors) = summary.failed

\* C25: a document is counted as a duplicate and left out of the result
\* only if an earlier document of the run that was retained has exactly
\* the same non-empty (field, value) pairs, 'File Name' and
\* 'All Extracted Text' aside.
NoFalseDuplicates ==
    \A k \in 1..i :
        OutcomeOf(k).kind = "duplicate" =>
            \E j \in 1..(k - 1) :
                /\ OutcomeOf(j).kind = "retained"
                /\ SignatureOf(j) = SignatureOf(k)

\* The documents parsed into a record without any non-empty field
EmptySignatureDocuments == {k \in ParsedDocuments : SignatureOf(k) = {}}

\* C26: the first document of a run whose record has no non-empty field is
\* retained and counted as a success, and every later such document of the
\* run is counted as a duplicate and left out of the result list; none of
\* them gets an error record.
EmptySignatureRetainedOnce ==
    /\ \A k \in EmptySignatureDocuments :
          OutcomeOf(k).kind =
              IF k = Min(EmptySignatureDocuments) THEN "retained" ELSE "duplicate"
    /\ Len(summary.errors) = Cardinality(FailedDocuments)

\* The hashes of the documents retained so far in the running call
HashesOfRetained ==
    {h[2] : h \in {g \in hash_of :
                      \E k \in ParsedDocuments :
                          OutcomeOf(k).kind = "retained" /\ g[1] = SignatureOf(k)}}

\* C22: the set of seen hashes and the summary are created anew in each
\* extract_all call: in a second call the set holds the hashes of the
\* documents retained in that call only, so that its first document is
\* never a duplicate, and the second call, given the same inputs and the
\* same OCR results, returns the record list and the summary the first
\* call returned.
BatchStateIsPerCall ==
    earlier # <<>> =>
        /\ seen_hashes = HashesOfRetained
        /\ Cardinality(seen_hashes) = summary.success
        /\ summary.success + summary.failed + summary.duplicates = i
        /\ i >= 1 => OutcomeOf(1).kind # "duplicate"
        /\ epc = "returned" =>
              (all_data = earlier.all_data /\ summary = earlier.summary)

\* A second call has returned after a retained, a failed and a duplicate
\* document
SecondCallReturned ==
    /\ earlier # <<>>
    /\ epc = "returned"
    /\ Total = 3
    /\ summary.success = 1 /\ summary.failed = 1 /\ summary.duplicates = 1
    /\ Len(all_data) = 2

\* A step in which OCR or parsing raises leaves 'success', 'duplicates' and
\* the set of seen hashes as they were
FailureLeavesSeenAlone ==
    (OcrRaises \/ ParseRaises) =>
        /\ summary'.success = summary.success
        /\ summary'.duplicates = summary.duplicates
        /\ seen_hashes' = seen_hashes

\* C30: when OCR or parsing of a document raises, the 'success' and
\* 'duplicates' counters and the set of seen signatures are left unchanged
\* by that document; a failed document therefore never makes a later
\* document a duplicate: the set holds the hashes of the retained documents
\* and nothing else.
FailedDocumentLeavesNoTrace ==
    /\ [][FailureLeavesSeenAlone]_vars
    /\ [](seen_hashes = HashesOfRetained)

\* A failed document has been followed by a retained document and by a
\* duplicate of the latter
RetainedAndDuplicateAfterFailure ==
    /\ i = 3
    /\ OutcomeOf(1).kind = "failed"
    /\ OutcomeOf(2).kind = "retained"
    /\ OutcomeOf(3).kind = "duplicate"
    /\ Cardinality(seen_hashes) = 1

\* ---------------------------------------------------------------------
\* Properties of parse_details (SpecParse)
\* ---------------------------------------------------------------------

\* A step taken inside _scan_passbook_lines keeps every non-empty field
ScannerStepKeepsFilled ==
    pc \in {"scan", "standalone"} =>
        \A k \in DOMAIN details :
            details[k] # "" => (k \in DOMAIN details' /\ details'[k] = details[k])

\* C3: a step of the multi-line scanner (a label triple, the standalone
\* account-number and IFSC recognizers) leaves every field that is not
\* empty as it is: a field the inline pass or an earlier triple or line has
\* filled is never rewritten.
ScannerWritesOnlyEmptyFields == [][ScannerStepKeepsFilled]_vars

\* The triple the scanner has just gone through matched its label on the
\* line and its value on the next line, and the field kept another value
\* that it held already
ScannerHasSkippedFilledField ==
    /\ pc = "scan" /\ ti > 1
    /\ LET triple    == _passbook_multiline_labels[ti - 1]
           line      == ScanLines(text)[li]
           next_line == GetNextNonempty(ScanLines(text), li)
           val_match == MatchAt(triple.value, next_line, 1, TRUE)
       IN  /\ Search(triple.label, line, TRUE).ok
           /\ next_line # ""
           /\ val_match.ok
           /\ details[triple.field] # ""
           /\ details[triple.field] # Strip(Group1(next_line, val_match))

\* C5: parse_details returns a record with exactly the 25 declared passbook
\* keys for source_type 'passbook' and exactly the 14 declared screenshot
\* keys for any other source_type, every key with a string value.
ParseReturnsDeclaredKeys ==
    pc = "done" =>
        /\ DOMAIN details = IF source_type = "passbook" THEN PassbookKeys ELSE ScreenshotKeys
        /\ Cardinality(DOMAIN details) = IF source_type = "passbook" THEN 25 ELSE 14
        /\ \A k \in DOMAIN details : details[k] \in STRING

\* A screenshot record with a token filed, returned for source_type 'camera'
CameraRecordReturned ==
    /\ pc = "done"
    /\ source_type = "camera"
    /\ Cardinality(DOMAIN details) = 14
    /\ details["Reference ID"] \in {"123456789012", "987654321098"}
    /\ details["Bank Name"] = ""

\* C6: for the scenario text in screenshot mode parse_details yields
\* Amount '1500.00', Payment Status 'SUCCESS', UPI ID / VPA
\* 'john.doe@oksbi', Reference ID '123456789012' and To (Receiver)
\* 'John Doe'.
ScenarioYieldsExpectedFields ==
    (pc = "done" /\ source_type = "screenshot" /\ text = ScenarioText) =>
        /\ details["Amount"] = "1500.00"
        /\ details["Payment Status"] = "SUCCESS"
        /\ details["UPI ID / VPA"] = "john.doe@oksbi"
        /\ details["Reference ID"] = "123456789012"
        /\ details["To (Receiver)"] = "John Doe"

\* C7: a second call of parse_details on the same text, filename and source
\* type returns the record the first call returned.
SecondCallReturnsSameRecord ==
    (pc = "done" /\ run = 2) => details = first

AllDigits(str) == Len(str) > 0 /\ \A j \in 1..Len(str) : Ch(str, j) \in Digit

\* What a step of the loop over the candidate tokens does with its token
ClassifyStepFilesToken ==
    pc = "ids" =>
        LET txn == order[ki]
        IN  IF Contains(txn, "CIC") \/ (Len(txn) > 20 /\ ~AllDigits(txn))
            THEN details' = [details EXCEPT !["Google Transaction ID"] = txn]
            ELSE IF AllDigits(txn) /\ Len(txn) >= 12
            THEN details' = [details EXCEPT !["Reference ID"] = txn]
            ELSE IF Len(txn) > 8
            THEN details' = [details EXCEPT !["UPI Transaction ID"] = txn]
            ELSE details' = details

\* C9: one iteration of the loop over the candidate tokens files the token
\* by the first applicable rule: 'CIC' in it, or longer than 20 and not all
\* digits: Google Transaction ID; all digits and at least 12 long:
\* Reference ID; longer than 8: UPI Transaction ID; otherwise no field is
\* written.

TokenIsFiledByFirstRule == [][ClassifyStepFilesToken]_vars

\* The loop has gone through a token of 8 characters and a token of 11
\* digits: the first is in no field, the second is the UPI Transaction ID
ShortTokenDropped ==
    /\ pc = "done"
    /\ ToSet(order) = {"AB12CD34", "12345678901"}
    /\ details["UPI Transaction ID"] = "12345678901"
    /\ details["Reference ID"] = ""
    /\ details["Google Transaction ID"] = ""

\* The shapes the IFSC and the MICR rules capture
IfscShaped(str) ==
    /\ Len(str) = 11
    /\ \A j \in 1..4 : Ch(str, j) \in LowerAZ \cup UpperAZ
    /\ Ch(str, 5) = "0"
    /\ \A j \in 6..11 : Ch(str, j) \in LowerAZ \cup UpperAZ \cup Digit
MicrShaped(str) == Len(str) = 9 /\ \A j \in 1..9 : Ch(str, j) \in Digit

\* The guard step: 'IFSC Code' is kept, and 'MICR Code' is cleared when it
\* is the non-empty value of 'IFSC Code' and kept when it is not
GuardStepSettlesMicr ==
    (pc = "post") =>
        /\ details'["IFSC Code"] = details["IFSC Code"]
        /\ details'["MICR Code"] =
              IF details["IFSC Code"] # "" /\ details["IFSC Code"] = details["MICR Code"]
              THEN "" ELSE details["MICR Code"]

WithoutPunctuation(str) == Filter(str, {Ch(str, j) : j \in 1..Len(str)} \ {".", ","})
WithoutSpaces(str) == Filter(str, {Ch(str, j) : j \in 1..Len(str)} \ {" "})

\* The post-processing step clears a balance that is the MICR code
BalanceGuardStep ==
    (pc = "post"
       /\ Len(WithoutPunctuation(details["Balance ($)"])) = 9
       /\ IsDigit(WithoutPunctuation(details["Balance ($)"]))
       /\ WithoutPunctuation(details["Balance ($)"]) = WithoutSpaces(details["MICR Code"]))
    => details'["Balance ($)"] = ""

\* C16: in passbook mode, when the extracted balance without its '.' and
\* ',' is exactly 9 digits and equals the MICR code without its spaces,
\* 'Balance' is empty in the record returned.
BalanceMatchingMicrIsCleared == [][BalanceGuardStep]_vars

\* A line that begins with 'to' or is exactly 'paid to', the first such
\* line, and what is left of a line once its leading label is stripped
IsReceiverLabel(line) == StartsWith(Lower(line), "to") \/ Lower(line) = "paid to"
ReceiverLabelLines(lines) == {j \in 1..Len(lines) : IsReceiverLabel(lines[j])}
AfterReceiverLabel(line) ==
    IF Lower(line) = "paid to" THEN "" ELSE StripLabel(to_label, line)

\* The receiver the first label line stands for: what follows the label,
\* or the next line when nothing follows it
ReceiverOfFirstLabel(lines) ==
    IF ReceiverLabelLines(lines) = {} THEN ""
    ELSE LET j == Min(ReceiverLabelLines(lines))
         IN  IF AfterReceiverLabel(lines[j]) # "" THEN AfterReceiverLabel(lines[j])
             ELSE IF j < Len(lines) THEN lines[j + 1]
             ELSE ""

\* C17: in screenshot mode 'To (Receiver)' is taken from the first
\* non-blank line that begins with 'to' or is exactly 'paid to': it is what
\* remains of the line once the leading label is stripped, and the next
\* non-blank line when nothing remains, as for a line that is just 'To' or
\* just 'Paid to'.
ReceiverFromFirstLabelLine ==
    (source_type \notin {"", "passbook"} /\ pc = "done") =>
        details["To (Receiver)"] = ReceiverOfFirstLabel(NonBlankLines(text))

\* The non-blank lines after line k of the stripped lines
LaterNonBlank(lines, k) == {j \in (k + 1)..Len(lines) : lines[j] # ""}

\* The value a label triple finds for the label on line k: the capture of
\* the value-recognizer on the next non-blank line, or <<>> when there is
\* no such line or the recognizer fails on it
ValueAfterLabel(lines, k, triple) ==
    IF LaterNonBlank(lines, k) = {} THEN <<>>
    ELSE IF ~MatchAt(triple.value, lines[Min(LaterNonBlank(lines, k))], 1, TRUE).ok THEN <<>>
    ELSE <<Strip(Group1(lines[Min(LaterNonBlank(lines, k))],
                        MatchAt(triple.value, lines[Min(LaterNonBlank(lines, k))], 1, TRUE)))>>

\* A step of the loop over the label triples, for a non-blank line
LabelStepWritesNextValue ==
    (pc = "scan" /\ ScanLines(text)[li] # "") =>
        IF /\ details[_passbook_multiline_labels[ti].field] = ""
           /\ Search(_passbook_multiline_labels[ti].label, ScanLines(text)[li], TRUE).ok
           /\ ValueAfterLabel(ScanLines(text), li, _passbook_multiline_labels[ti]) # <<>>
        THEN details' =
                [details EXCEPT ![_passbook_multiline_labels[ti].field] =
                    ValueAfterLabel(ScanLines(text), li, _passbook_multiline_labels[ti])[1]]
        ELSE details' = details

\* C18: when a line matches a label-recognizer whose field is empty, the
\* value-recognizer is tested against the next non-blank line, however many
\* blank lines lie between; on success the captured value is written to the
\* field, and when there is no later non-blank line or it fails the
\* value-recognizer, nothing is written for that label occurrence.
LabelValueOnNextNonBlankLine == [][LabelStepWritesNextValue]_vars

\* A value was found two blank lines below its label, a value that failed
\* its recognizer and a label on the last line left their fields empty
ValueFoundAcrossBlankLines ==
    /\ source_type = "passbook" /\ pc = "done"
    /\ text = "Holder\n\n \nSita Devi\nMICR\nnone\nBranch"
    /\ details["Account Holder"] = "Sita Devi"
    /\ details["MICR Code"] = ""
    /\ details["Branch Name"] = ""

\* The fields of the heuristic line scan, and the lines that qualify for each
PositionalFields == {"Bank Name", "To (Receiver)", "From (Sender)"}
QualifyingLines(lines, field) ==
    {j \in 1..Len(lines) :
        CASE field = "Bank Name" ->
                Contains(lines[j], "Bank") /\ Len(lines[j]) < 40 /\ ~HasRefWord(lines[j])
          [] field = "To (Receiver)" -> IsReceiverLabel(lines[j])
          [] OTHER -> StartsWith(Lower(lines[j]), "from")}

\* What line j alone gives a field of a record whose fields are empty
ValueFromLine(lines, j, field) ==
    HeuristicLine(ScreenshotEmpty("", ""), lines, j)[field]

\* A step of the line scan changes no positional field that is set
HeuristicStepKeepsSet ==
    (pc = "lines") =>
        \A field \in PositionalFields :
            details[field] # "" => details'[field] = details[field]

\* C19: in screenshot mode each of 'Bank Name', 'To (Receiver)' and
\* 'From (Sender)' has the value its first qualifying line gives it (and is
\* empty when no line qualifies); a step of the line scan never changes a
\* value the scan has set.
PositionalFieldsFilledOnce ==
    /\ [][HeuristicStepKeepsSet]_vars
    /\ []((source_type \notin {"", "passbook"} /\ pc = "done") =>
            \A field \in PositionalFields :
                details[field] =
                    IF QualifyingLines(NonBlankLines(text), field) = {} THEN ""
                    ELSE ValueFromLine(NonBlankLines(text),
                                       Min(QualifyingLines(NonBlankLines(text), field)),
                                       field))

\* A record has been returned for a text with two qualifying lines for
\* each positional field
FirstQualifyingLinesWon ==
    /\ source_type = "screenshot" /\ pc = "done"
    /\ \A field \in PositionalFields :
          Cardinality(QualifyingLines(NonBlankLines(text), field)) = 2
    /\ details["Bank Name"] = "HDFC Bank"
    /\ details["To (Receiver)"] = "John"
    /\ details["From (Sender)"] = "X"

\* The canonical account-type names, and the name for a value: that of its
\* abbreviation or full word in any letter case, the value itself otherwise
CanonicalTypes == {"Savings", "Current", "Fixed Deposit", "Recurring Deposit"}
CanonicalType(value) ==
    CASE Upper(value) \in {"SB", "SAVINGS"} -> "Savings"
      [] Upper(value) \in {"CA", "CURRENT"} -> "Current"
      [] Upper(value) \in {"FD", "FIXED DEPOSIT"} -> "Fixed Deposit"
      [] Upper(value) \in {"RD", "RECURRING DEPOSIT"} -> "Recurring Deposit"
      [] OTHER -> value

\* The post-processing step maps 'Account Type' to its canonical name, and
\* normalizing the result once more changes nothing
AccountTypeStep ==
    (pc = "post") =>
        /\ details'["Account Type"] = CanonicalType(details["Account Type"])
        /\ NormalizeAccountType(details') = details'
        /\ details["Account Type"] \in CanonicalTypes =>
              details'["Account Type"] = details["Account Type"]

\* C20: in passbook mode SB, CA, FD, RD and Savings, Current, Fixed Deposit,
\* Recurring Deposit, in any letter case, become 'Savings', 'Current',
\* 'Fixed Deposit', 'Recurring Deposit'; a canonical name maps to itself,
\* and a value outside the table is left unchanged.
AccountTypeNormalized == [][AccountTypeStep]_vars

\* An abbreviation in lower case has been expanded: 'rd' has become
\* 'Recurring Deposit'
AbbreviationExpanded ==
    /\ source_type = "passbook" /\ pc = "done"
    /\ text = "rd a/c"
    /\ details["Account Type"] = "Recurring Deposit"

\* No whitespace and no '-' in a value
IsDepunctuated(str) == \A j \in 1..Len(str) : Ch(str, j) \notin Ws \cup {"-"}

\* C21: in every passbook record returned, 'Account Number' and 'Mobile
\* Number' contain no whitespace and no '-', whichever pass supplied the
\* value.
NumbersAreDepunctuated ==
    (source_type = "passbook" /\ pc = "done") =>
        /\ IsDepunctuated(details["Account Number"])
        /\ IsDepunctuated(details["Mobile Number"])

\* A record has been returned whose account and mobile numbers were
\* written with a dash and a space in the text
DashesAndSpacesRemoved ==
    /\ source_type = "passbook" /\ pc = "done"
    /\ text = "A/c No\n1234-5678 90\nPhone: 98765-43210"
    /\ details["Account Number"] = "1234567890"
    /\ details["Mobile Number"] = "9876543210"

\* The amount fields of a passbook record, and the shape of a normalized
\* amount: digits and at most one "."
AmountFields ==
    {"Credit (" \o Rupee \o ")", "Debit (" \o Rupee \o ")", "Balance (" \o Rupee \o ")",
     "Opening Balance (" \o Rupee \o ")", "Closing Balance (" \o Rupee \o ")"}
IsPlainAmount(str) ==
    /\ \A j \in 1..Len(str) : Ch(str, j) \in Digit \cup {"."}
    /\ Cardinality({j \in 1..Len(str) : Ch(str, j) = "."}) <= 1

\* C27: in every passbook record returned, each amount field that is not
\* empty consists of digits and at most one decimal point, also when the
\* multi-line scanner took 'Balance' from a value line such as
\* "1,23,456.00".
AmountsAreNormalized ==
    (source_type = "passbook" /\ pc = "done") =>
        \A field \in AmountFields : IsPlainAmount(Get(details, field))

\* The line li is the value the scanner has stored for a field other than
\* 'Account Number' that the inline rules left empty: it follows a label
\* line of the field, blank lines aside, and its captured part is the
\* field's value
ConsumedByScanner ==
    LET lines == ScanLines(text) IN
    \E j \in 1..(li - 1) :
    \E t \in 1..Len(_passbook_multiline_labels) :
        LET triple == _passbook_multiline_labels[t]
            later  == {q \in (j + 1)..Len(lines) : lines[q] # ""}
            val_match == MatchAt(triple.value, lines[li], 1, TRUE)
        IN  /\ triple.field # "Account Number"
            /\ lines[j] # ""
            /\ later # {} /\ Min(later) = li
            /\ Search(triple.label, lines[j], TRUE).ok
            /\ val_match.ok
            /\ Get(PassbookInline(text, filename), triple.field) = ""
            /\ Get(details, triple.field) = Strip(Group1(lines[li], val_match))

StandaloneTakesAccountNumber ==
    /\ StandaloneStep
    /\ Get(details', "Account Number") # Get(details, "Account Number")

\* C28: in passbook mode a bare numeric line that the multi-line scanner
\* has taken as the value of a label of another field is not also made
\* the 'Account Number' by the standalone recognizer of 9 to 18 digits.
ValueLineIsNotReused ==
    [][StandaloneTakesAccountNumber => ~ConsumedByScanner]_vars

\* The shapes the three rules of the classification accept
GoogleShaped(txn)    == Contains(txn, "CIC") \/ (Len(txn) > 20 /\ ~AllDigits(txn))
ReferenceShaped(txn) == AllDigits(txn) /\ Len(txn) >= 12

\* C29: in every screenshot record returned, 'Reference ID' is empty or all
\* digits and at least 12 long; 'Google Transaction ID' is empty or
\* contains "CIC" or is longer than 20 characters and not all digits;
\* 'UPI Transaction ID' is empty or longer than 8 characters, not an
\* all-digit token of 12 or more and without "CIC".
IdFieldsHaveTheirShape ==
    (source_type # "passbook" /\ pc = "done") =>
        /\ details["Reference ID"] = "" \/ ReferenceShaped(details["Reference ID"])
        /\ details["Google Transaction ID"] = ""
              \/ GoogleShaped(details["Google Transaction ID"])
        /\ \/ details["UPI Transaction ID"] = ""
           \/ /\ Len(details["UPI Transaction ID"]) > 8
              /\ ~ReferenceShaped(details["UPI Transaction ID"])
              /\ ~Contains(details["UPI Transaction ID"], "CIC")

\* A record has been returned with the three id fields filled, one token
\* each
ThreeIdsReturned ==
    /\ source_type # "passbook" /\ pc = "done"
    /\ details["Reference ID"] = "123456789012"
    /\ details["Google Transaction ID"] = "CIC9"
    /\ details["UPI Transaction ID"] = "AB12CD34E"

\* ---------------------------------------------------------------------
\* Properties of _clean_amount (SpecAmount)
\* ---------------------------------------------------------------------

\* raw without the characters that are neither a digit nor "."
RECURSIVE Kept(_)
Kept(str) ==
    IF Len(str) = 0 THEN ""
    ELSE (IF Ch(str, 1) \in Digit \cup {"."} THEN Ch(str, 1) ELSE "")
         \o Kept(SubSeq(str, 2, Len(str)))

\* str is a decimal number: digits, at most one "." among them, and at
\* least one digit
IsDecimalNumber(str) ==
    \E p \in 1..(Len(str) + 1) :
        /\ \A j \in 1..(p - 1) : Ch(str, j) \in Digit
        /\ p <= Len(str) => Ch(str, p) = "."
        /\ \A j \in (p + 1)..Len(str) : Ch(str, j) \in Digit
        /\ \E j \in 1..Len(str) : Ch(str, j) \in Digit

\* C8: for a non-empty raw match, _clean_amount returns the match without
\* its characters other than digits and "." when that remainder is a number
\* ("1,500.00" gives "1500.00"), returns the raw match unchanged otherwise,
\* and never returns the empty string.
CleanAmountNormalizes ==
    (apc = "done" /\ raw # "") =>
        /\ IsDecimalNumber(Kept(raw)) => cleaned = Kept(raw)
        /\ ~IsDecimalNumber(Kept(raw)) => cleaned = raw
        /\ cleaned # ""
        /\ raw = "1,500.00" => cleaned = "1500.00"

\* A raw match whose remainder is no number has been returned unchanged
CleanAmountKeepsRaw ==
    /\ apc = "done"
    /\ raw = Rupee \o ".,"
    /\ Kept(raw) = "."
    /\ cleaned = raw

\* ---------------------------------------------------------------------
\* Properties of _find_match (SpecMatch)
\* ---------------------------------------------------------------------

\* The rule list _find_match walks, and the rules of it that match somewhere
RuleList == Catalog(pattern_dict)[pattern_key]
MatchingRules == {j \in 1..Len(RuleList) : Search(RuleList[j], match_text, TRUE).ok}

\* What rule j captures in the text: group 1 of its leftmost match, the
\* whole match for a rule without a group
CaptureOf(j) ==
    LET m == Search(RuleList[j], match_text, TRUE)
    IN  IF NGroups(RuleList[j]) > 0 THEN Group1(match_text, m) ELSE Group0(match_text, m)

\* The result is the trimmed capture of the earliest-declared matching rule
EarliestRuleWins ==
    MatchingRules # {} => found = Strip(CaptureOf(Min(MatchingRules)))

\* C4 as stated: the result is the trimmed capture of the earliest-declared
\* rule that matches, and it is empty exactly when no rule matches.
FindMatchEmptyIffNoRule ==
    mpc = "done" =>
        /\ EarliestRuleWins
        /\ found = "" <=> MatchingRules = {}

\* C4 (amended): the result is the trimmed capture of the earliest-declared
\* rule that matches, whatever later rules match; it is empty exactly when
\* no rule matches or that capture consists of whitespace only.
FindMatchPrecedence ==
    mpc = "done" =>
        /\ EarliestRuleWins
        /\ found = "" <=>
              \/ MatchingRules = {}
              \/ AllIn(CaptureOf(Min(MatchingRules)), Ws)

\* Two rules of the list match with different captures, the later-declared
\* one further left in the text, and the earlier-declared one has won
EarlierRuleHasWon ==
    /\ mpc = "done"
    /\ \E j, k \in MatchingRules :
          /\ j < k
          /\ j = Min(MatchingRules)
          /\ Search(RuleList[k], match_text, TRUE).b < Search(RuleList[j], match_text, TRUE).b
          /\ Strip(CaptureOf(k)) # Strip(CaptureOf(j))
          /\ found = Strip(CaptureOf(j))
          /\ found # ""

====
